---- MODULE Spec2Model ----
(***************************************************************************)
(* Verification model of the statistical analysis core of the Steam games  *)
(* analytics backend (backend/app/analysis).                               *)
(*                                                                         *)
(* A DataFrame is a record [columns, rows]: the set of column names and    *)
(* the sequence of rows, each row a record over exactly those columns.     *)
(* A date is the number of days since 2023-01-01; a missing value (NaN,    *)
(* None, NaT) is the value NaN below.  player_threshold_pct is carried in  *)
(* percent (0.5 is 50).                                                    *)
(***************************************************************************)
EXTENDS Integers, Sequences, FiniteSets, TLC

VARIABLES
    pc,         \* position of the operation under analysis
    df,         \* the caller's table handed to a utility function
    args,       \* the remaining arguments of the call
    ret,        \* what the call returned or raised
    did_model,  \* the fields of a DifferenceInDifferencesModel instance
    did_data,   \* the combined table the last _prepare_did_data built
    call,       \* the last method call on a model instance and how it ended
    locals,     \* the local variables of run_did_analysis; the history of calls
    survival_model,   \* the fields of a SurvivalAnalysisModel instance
    elasticity_model  \* the fields of a PriceElasticityModel instance

did_vars == <<did_model, did_data, call, locals>>

other_models == <<survival_model, elasticity_model>>

vars == <<pc, df, args, ret, did_model, did_data, call, locals, survival_model,
         elasticity_model>>

(***************************************************************************)
(* Values                                                                  *)
(***************************************************************************)
NaN == 0 - 1

Range(s) == {s[i] : i \in 1..Len(s)}

Abs(x) == IF x < 0 THEN 0 - x ELSE x

RECURSIVE GCD(_, _)
GCD(a, b) == IF b = 0 THEN a ELSE GCD(b, a % b)

\* the float n / d for d # 0
Ratio(n, d) ==
    [num |-> ((IF d < 0 THEN 0 - n ELSE n) \div GCD(Abs(n), Abs(d))),
     den |-> (Abs(d) \div GCD(Abs(n), Abs(d)))]

RatioAdd(a, b) == Ratio(a.num * b.den + b.num * a.den, a.den * b.den)

RECURSIVE RatioSum(_)
RatioSum(values) ==
    IF values = <<>> THEN Ratio(0, 1)
    ELSE RatioAdd(RatioSum(SubSeq(values, 1, Len(values) - 1)), values[Len(values)])

Max2(a, b) == IF a >= b THEN a ELSE b

Min2(a, b) == IF a <= b THEN a ELSE b

(***************************************************************************)
(* Calendar: datetime arithmetic as the code uses it (.days, .year,        *)
(* .month), for the months 2023-01 .. 2025-12.                             *)
(***************************************************************************)
DaysInMonth(idx) ==
    LET m == (idx % 12) + 1
        y == 2023 + (idx \div 12)
    IN  IF m = 2 THEN (IF y % 4 = 0 THEN 29 ELSE 28)
        ELSE IF m \in {4, 6, 9, 11} THEN 30 ELSE 31

RECURSIVE DaysBeforeMonth(_)
DaysBeforeMonth(idx) ==
    IF idx = 0 THEN 0 ELSE DaysBeforeMonth(idx - 1) + DaysInMonth(idx - 1)

\* first day of each month, as days since 2023-01-01
MonthStarts == [idx \in 0..36 |-> DaysBeforeMonth(idx)]

\* index (0-based, from 2023-01) of the calendar month a date falls in
MonthIndex(d) == Cardinality({i \in 0..35 : MonthStarts[i] <= d}) - 1

YearOf(d) == 2023 + (MonthIndex(d) \div 12)

MonthOf(d) == (MonthIndex(d) % 12) + 1

DayOf(d) == d - MonthStarts[MonthIndex(d)] + 1

\* datetime(y, m, dd)
Date(y, m, dd) == MonthStarts[(y - 2023) * 12 + (m - 1)] + (dd - 1)

\* (b.year - a.year) * 12 + (b.month - a.month)
MonthsBetween(a, b) == (YearOf(b) - YearOf(a)) * 12 + (MonthOf(b) - MonthOf(a))

(***************************************************************************)
(* DataFrame helpers                                                       *)
(***************************************************************************)
DataFrame(columns, rows) == [columns |-> columns, rows |-> rows]

\* df.sort_values(["game_id", "date"]): ascending, lexicographic, stable
RowBefore(a, b) ==
    \/ a.game_id < b.game_id
    \/ a.game_id = b.game_id /\ a.date < b.date

RECURSIVE InsertSorted(_, _)
InsertSorted(sorted, row) ==
    IF sorted = <<>> THEN <<row>>
    ELSE IF RowBefore(row, sorted[Len(sorted)])
         THEN Append(InsertSorted(SubSeq(sorted, 1, Len(sorted) - 1), row),
                     sorted[Len(sorted)])
         ELSE Append(sorted, row)

RECURSIVE SortRows(_)
SortRows(rows) ==
    IF rows = <<>> THEN <<>>
    ELSE InsertSorted(SortRows(SubSeq(rows, 1, Len(rows) - 1)), rows[Len(rows)])

SortValues(frame) == DataFrame(frame.columns, SortRows(frame.rows))

(***************************************************************************)
(* identify_discount_events                                                *)
(***************************************************************************)
DefaultMinDiscountPct == 30

DefaultMinDurationDays == 7

EventColumns == {"game_id", "start_date", "end_date", "discount_pct"}

\* mutant of C3: the column check of line 139 is gone
RequiredColumnsPresent_Unchecked(columns) == TRUE

\* line 139: both discount columns are there
RequiredColumnsPresent(columns) ==
    "is_discount_active" \in columns /\ "discount_pct" \in columns

\* line 146: "KeyError" when evaluating the condition reads an absent column
RowQualifies(columns, row, min_discount_pct) ==
    IF "is_discount_active" \notin columns THEN "KeyError"
    ELSE IF ~row.is_discount_active THEN "no"
    ELSE IF "discount_pct" \notin columns THEN "KeyError"
    ELSE IF row.discount_pct >= min_discount_pct THEN "yes" ELSE "no"

\* lines 164-166 and 171-173: the duration rule applied to a closed run
MeetsDuration(event, min_duration_days) ==
    event.end_date - event.start_date >= min_duration_days

CloseEvent(events, current_event, min_duration_days) ==
    IF current_event # <<>> /\ MeetsDuration(current_event[1], min_duration_days)
    THEN Append(events, current_event[1])
    ELSE events

\* one iteration of the loop of lines 145-167; current_event is <<>> for None
ScanRow(st, columns, row, min_discount_pct, min_duration_days) ==
    LET q == RowQualifies(columns, row, min_discount_pct) IN
    IF st.raised THEN st
    ELSE IF q = "KeyError" THEN [st EXCEPT !.raised = TRUE]
    ELSE IF q = "yes" THEN
        IF st.current_event = <<>> \/ st.current_event[1].game_id # row.game_id
        THEN [st EXCEPT !.current_event =
                 <<[game_id |-> row.game_id, start_date |-> row.date,
                    end_date |-> row.date, discount_pct |-> row.discount_pct]>>]
        ELSE [st EXCEPT !.current_event =
                 <<[st.current_event[1] EXCEPT
                      !.end_date = row.date,
                      !.discount_pct = Max2(st.current_event[1].discount_pct,
                                            row.discount_pct)]>>]
    ELSE [st EXCEPT
            !.events = CloseEvent(st.events, st.current_event, min_duration_days),
            !.current_event = <<>>]

RECURSIVE ScanRows(_, _, _, _, _)
ScanRows(columns, rows, n, min_discount_pct, min_duration_days) ==
    IF n = 0 THEN [events |-> <<>>, current_event |-> <<>>, raised |-> FALSE]
    ELSE ScanRow(ScanRows(columns, rows, n - 1, min_discount_pct, min_duration_days),
                 columns, rows[n], min_discount_pct, min_duration_days)

\* the whole function: [raised, columns, rows]
identify_discount_events(frame, min_discount_pct, min_duration_days) ==
    LET sorted == SortValues(frame) IN
    IF ~RequiredColumnsPresent(sorted.columns)
    THEN [raised |-> FALSE, columns |-> EventColumns, rows |-> <<>>]
    ELSE LET st == ScanRows(sorted.columns, sorted.rows, Len(sorted.rows),
                            min_discount_pct, min_duration_days)
             events == CloseEvent(st.events, st.current_event, min_duration_days)
         IN  IF st.raised
             THEN [raised |-> TRUE, columns |-> {}, rows |-> <<>>]
             ELSE [raised |-> FALSE,
                   columns |-> IF events = <<>> THEN {} ELSE EventColumns,
                   rows |-> events]

(***************************************************************************)
(* Inputs: tables built from a set of (game_id, date) keys, so that an     *)
(* entity's timestamps are unique, handed over in ascending or in          *)
(* descending order.                                                       *)
(***************************************************************************)
KeyBefore(a, b) == a[1] < b[1] \/ (a[1] = b[1] /\ a[2] < b[2])

RECURSIVE KeysAscending(_)
KeysAscending(ks) ==
    IF ks = {} THEN <<>>
    ELSE LET k == CHOOSE k \in ks : \A j \in ks \ {k} : KeyBefore(k, j)
         IN  <<k>> \o KeysAscending(ks \ {k})

Reverse(s) == [i \in 1..Len(s) |-> s[Len(s) + 1 - i]]

Restrict(row, columns) == [c \in columns |-> row[c]]

NoReturn == [raised |-> FALSE, columns |-> {}, rows |-> <<>>]

\* no DifferenceInDifferencesModel exists in the specifications of the
\* utility functions
NoDiDModel ==
    /\ did_model = [constructed |-> FALSE]
    /\ did_data = DataFrame({}, <<>>)
    /\ call = [op |-> "none"]
    /\ locals = [stage |-> "none"]

\* no SurvivalAnalysisModel and no PriceElasticityModel exists
NoOtherModels ==
    /\ survival_model = [constructed |-> FALSE]
    /\ elasticity_model = [constructed |-> FALSE]

(***************************************************************************)
(* SpecEvents: identify_discount_events called on a caller's table         *)
(***************************************************************************)
MaxEventRows == 3

EventKeys ==
    {1, 2} \X {Date(2024, 1, 1), Date(2024, 1, 7), Date(2024, 1, 8)}

\* (is_discount_active, discount_pct)
DiscountCells == {<<TRUE, 10>>, <<TRUE, 30>>, <<TRUE, 50>>, <<FALSE, 50>>, <<FALSE, 0>>}

EventColumnSets ==
    {{"game_id", "date"} \cup extra :
        extra \in SUBSET {"is_discount_active", "discount_pct"}}

EventFrame(columns, ks, cell, descending) ==
    LET keys == KeysAscending(ks)
        rows == [i \in 1..Len(keys) |->
                   Restrict([game_id |-> keys[i][1], date |-> keys[i][2],
                             is_discount_active |-> cell[keys[i]][1],
                             discount_pct |-> cell[keys[i]][2]], columns)]
    IN  DataFrame(columns, IF descending THEN Reverse(rows) ELSE rows)

InitEvents ==
    /\ pc = "ready"
    /\ \E columns \in EventColumnSets :
       \E ks \in {s \in SUBSET EventKeys : Cardinality(s) <= MaxEventRows} :
       \E cell \in [ks -> DiscountCells] :
       \E descending \in BOOLEAN :
          df = EventFrame(columns, ks, cell, descending)
    /\ args \in [min_discount_pct : {DefaultMinDiscountPct, 50},
                 min_duration_days : {DefaultMinDurationDays, 2}]
    /\ ret = NoReturn
    /\ NoDiDModel
    /\ NoOtherModels

IdentifyDiscountEvents ==
    /\ pc = "ready"
    /\ ret' = identify_discount_events(df, args.min_discount_pct,
                                       args.min_duration_days)
    /\ pc' = "done"
    /\ UNCHANGED <<df, args>>
    /\ UNCHANGED did_vars
    /\ UNCHANGED other_models

NextEvents == IdentifyDiscountEvents

SpecEvents == InitEvents /\ [][NextEvents]_vars

(***************************************************************************)
(* Claims about identify_discount_events                                   *)
(***************************************************************************)
HasDiscountColumns == {"is_discount_active", "discount_pct"} \subseteq df.columns

SortedRows == SortRows(df.rows)

Qualifying(row) ==
    row.is_discount_active /\ row.discount_pct >= args.min_discount_pct

\* rows i..j of the sorted table are a maximal contiguous run of qualifying
\* rows of one entity
IsMaximalRun(rows, i, j) ==
    /\ i <= j
    /\ \A k \in i..j : Qualifying(rows[k]) /\ rows[k].game_id = rows[i].game_id
    /\ i = 1 \/ ~Qualifying(rows[i - 1]) \/ rows[i - 1].game_id # rows[i].game_id
    /\ j = Len(rows) \/ ~Qualifying(rows[j + 1])
                     \/ rows[j + 1].game_id # rows[i].game_id

RunEmitted(rows, i, j) ==
    \E e \in Range(ret.rows) :
        /\ e.game_id = rows[i].game_id
        /\ e.start_date = rows[i].date
        /\ e.end_date = rows[j].date

\* C1: every maximal contiguous run of qualifying rows of one entity whose
\* first and last rows are d days apart produces an event iff
\* d >= min_duration_days, however the run ends.
C1_RunEmittedIffLongEnough ==
    (pc = "done" /\ HasDiscountColumns) =>
        \A i, j \in 1..Len(df.rows) :
            IsMaximalRun(SortedRows, i, j) =>
                (RunEmitted(SortedRows, i, j)
                    <=> SortedRows[j].date - SortedRows[i].date
                            >= args.min_duration_days)

\* C2: a run that is followed by a qualifying row of another entity is closed
\* and evaluated under the duration rule before the new run starts: it is
\* emitted when long enough, and no emitted event spans two entities.
C2_RunClosedAtEntityChange ==
    (pc = "done" /\ HasDiscountColumns) =>
        /\ \A i, j \in 1..Len(df.rows) :
              ( /\ IsMaximalRun(SortedRows, i, j)
                /\ j < Len(df.rows)
                /\ Qualifying(SortedRows[j + 1])
                /\ SortedRows[j].date - SortedRows[i].date
                       >= args.min_duration_days )
              => RunEmitted(SortedRows, i, j)
        /\ \A e \in Range(ret.rows) :
              \E i, j \in 1..Len(df.rows) :
                  /\ IsMaximalRun(SortedRows, i, j)
                  /\ e.game_id = SortedRows[i].game_id
                  /\ e.start_date = SortedRows[i].date
                  /\ e.end_date = SortedRows[j].date

NoRowQualifies == \A r \in Range(df.rows) : ~Qualifying(r)

\* C3: identify_discount_events never raises; it returns no event when a
\* discount column is absent and when no row qualifies.
C3_EmptyResultNotError ==
    pc = "done" =>
        /\ ~ret.raised
        /\ (~HasDiscountColumns \/ NoRowQualifies) => ret.rows = <<>>

C3_Witness ==
    /\ pc = "done"
    /\ "discount_pct" \notin df.columns
    /\ "is_discount_active" \in df.columns
    /\ \E r \in Range(df.rows) : r.is_discount_active
    /\ ret.rows = <<>>
    /\ ~ret.raised

(***************************************************************************)
(* prepare_panel_data                                                      *)
(***************************************************************************)
LagColumns == {"avg_players", "current_price", "discount_pct"}

\* f"{col}_lag1", f"{col}_lag2"
LagName(col, k) ==
    CASE col = "avg_players" /\ k = 1 -> "avg_players_lag1"
      [] col = "avg_players" /\ k = 2 -> "avg_players_lag2"
      [] col = "current_price" /\ k = 1 -> "current_price_lag1"
      [] col = "current_price" /\ k = 2 -> "current_price_lag2"
      [] col = "discount_pct" /\ k = 1 -> "discount_pct_lag1"
      [] col = "discount_pct" /\ k = 2 -> "discount_pct_lag2"

\* df.groupby(id_col).cumcount() at position i
CumCount(rows, i) ==
    Cardinality({j \in 1..(i - 1) : rows[j].game_id = rows[i].game_id})

\* mutant of C4: df[col].shift(k) without the groupby
GroupShift_Ungrouped(rows, i, col, k) ==
    IF i <= k THEN NaN ELSE rows[i - k][col]

\* df.groupby(id_col)[col].shift(k) at position i
GroupShift(rows, i, col, k) ==
    LET c == CumCount(rows, i) IN
    IF c < k THEN NaN
    ELSE LET j == CHOOSE j \in 1..(i - 1) :
                     /\ rows[j].game_id = rows[i].game_id
                     /\ CumCount(rows, j) = c - k
         IN  rows[j][col]

PanelColumns(columns) ==
    columns \cup {"time_period"}
            \cup {LagName(col, k) : col \in LagColumns \cap columns, k \in {1, 2}}

PanelCell(columns, rows, i, c) ==
    IF c = "time_period" THEN CumCount(rows, i)
    ELSE IF \E col \in LagColumns \cap columns, k \in {1, 2} : c = LagName(col, k)
    THEN LET src == CHOOSE ck \in (LagColumns \cap columns) \X {1, 2} :
                        c = LagName(ck[1], ck[2])
         IN  GroupShift(rows, i, src[1], src[2])
    ELSE rows[i][c]

\* the whole function
prepare_panel_data(frame) ==
    LET sorted == SortValues(frame)
        columns == PanelColumns(frame.columns)
    IN  DataFrame(columns,
                  [i \in 1..Len(sorted.rows) |->
                     [c \in columns |-> PanelCell(frame.columns, sorted.rows, i, c)]])

(***************************************************************************)
(* SpecPanel: prepare_panel_data called on a caller's table, its rows in   *)
(* any order                                                               *)
(***************************************************************************)
MaxPanelRows == 3

PanelKeys ==
    {1, 2} \X {Date(2024, 1, 1), Date(2024, 2, 1), Date(2024, 3, 1)}

\* (avg_players, current_price)
PanelCells == {100, 200} \X {10, NaN}

PanelColumnSets ==
    {{"game_id", "date", "avg_players"}, {"game_id", "date", "avg_players", "current_price"}}

PanelFrame(columns, ks, cell, order) ==
    LET keys == KeysAscending(ks)
    IN  DataFrame(columns,
          [i \in 1..Len(keys) |->
             Restrict([game_id |-> keys[order[i]][1], date |-> keys[order[i]][2],
                       avg_players |-> cell[keys[order[i]]][1],
                       current_price |-> cell[keys[order[i]]][2]], columns)])

InitPanel ==
    /\ pc = "ready"
    /\ \E columns \in PanelColumnSets :
       \E ks \in {s \in SUBSET PanelKeys : Cardinality(s) <= MaxPanelRows} :
       \E cell \in [ks -> PanelCells] :
       \E order \in Permutations(1..Cardinality(ks)) :
          df = PanelFrame(columns, ks, cell, order)
    /\ args = [id_col |-> "game_id", time_col |-> "date"]
    /\ ret = NoReturn
    /\ NoDiDModel
    /\ NoOtherModels

PreparePanelData ==
    /\ pc = "ready"
    /\ ret' = [raised |-> FALSE,
               columns |-> prepare_panel_data(df).columns,
               rows |-> prepare_panel_data(df).rows]
    /\ pc' = "done"
    /\ UNCHANGED <<df, args>>
    /\ UNCHANGED did_vars
    /\ UNCHANGED other_models

NextPanel == PreparePanelData

SpecPanel == InitPanel /\ [][NextPanel]_vars

(***************************************************************************)
(* Claims about prepare_panel_data                                         *)
(***************************************************************************)
\* number of the caller's rows of the same entity that are earlier in time
PeriodOf(game_id, date) ==
    Cardinality({r \in Range(df.rows) : r.game_id = game_id /\ r.date < date})

\* the entity's own value of col at period t, missing when t < 0
OwnValueAt(game_id, t, col) ==
    IF t < 0 THEN NaN
    ELSE (CHOOSE r \in Range(df.rows) :
             r.game_id = game_id /\ PeriodOf(r.game_id, r.date) = t)[col]

\* C4: for every order of the input rows the output holds the same rows
\* ordered by (entity, time), time_period counts 0..n-1 per entity in time
\* order, and lag1 / lag2 are the entity's own values one / two periods
\* earlier, missing where the entity has no such period.
C4_PanelOrderPeriodsAndLags ==
    pc = "done" =>
        /\ Len(ret.rows) = Len(df.rows)
        /\ \A r \in Range(df.rows) :
              \E o \in Range(ret.rows) : Restrict(o, df.columns) = r
        /\ \A i, j \in 1..Len(ret.rows) :
              i < j => RowBefore(ret.rows[i], ret.rows[j])
        /\ \A o \in Range(ret.rows) :
              /\ o.time_period = PeriodOf(o.game_id, o.date)
              /\ o.avg_players_lag1
                    = OwnValueAt(o.game_id, o.time_period - 1, "avg_players")
              /\ o.avg_players_lag2
                    = OwnValueAt(o.game_id, o.time_period - 2, "avg_players")
              /\ "current_price" \in df.columns =>
                    /\ o.current_price_lag1
                          = OwnValueAt(o.game_id, o.time_period - 1, "current_price")
                    /\ o.current_price_lag2
                          = OwnValueAt(o.game_id, o.time_period - 2, "current_price")

\* an unsorted table of two entities: the second entity's first row follows
\* rows of the first, whose second row carries a lag
C4_Witness ==
    /\ pc = "done"
    /\ df.rows # SortRows(df.rows)
    /\ Len(ret.rows) = 3
    /\ ret.rows[2].game_id = 1 /\ ret.rows[2].avg_players_lag1 = 100
    /\ ret.rows[3].game_id = 2 /\ ret.rows[3].time_period = 0
    /\ ret.rows[3].avg_players_lag1 = NaN /\ ret.rows[3].avg_players_lag2 = NaN
    /\ ret.rows[2].avg_players = 200

(***************************************************************************)
(* calculate_churn_events.  A rolling mean is kept exactly, as the pair    *)
(* <<sum, count>> of its window.                                           *)
(***************************************************************************)
DefaultPlayerThresholdPct == 50

DefaultLookbackMonths == 3

ChurnColumns == {"game_id", "churn_date", "time_to_churn_months", "churned"}

\* the rows of one game, in table order: df[df["game_id"] == game_id]
GameRows(rows, game_id) == SelectSeq(rows, LAMBDA r : r.game_id = game_id)

\* df["game_id"].unique(): in order of first appearance
RECURSIVE UniqueGameIds(_)
UniqueGameIds(rows) ==
    IF rows = <<>> THEN <<>>
    ELSE LET front == UniqueGameIds(SubSeq(rows, 1, Len(rows) - 1))
             g == rows[Len(rows)].game_id
         IN  IF g \in Range(front) THEN front ELSE Append(front, g)

RECURSIVE SumPlayers(_, _, _)
SumPlayers(game_rows, from, to) ==
    IF from > to THEN 0
    ELSE game_rows[to].avg_players + SumPlayers(game_rows, from, to - 1)

\* x.rolling(window=lookback_months, min_periods=1).mean() at position i
RollingMean(game_rows, i, lookback_months) ==
    LET from == Max2(1, i - lookback_months + 1)
    IN  <<SumPlayers(game_rows, from, i), i - from + 1>>

MeanLeq(a, b) == a[1] * b[2] <= b[1] * a[2]

\* game_df["rolling_avg"].max()
MaxRollingMean(game_rows, lookback_months) ==
    LET means == {RollingMean(game_rows, i, lookback_months) :
                     i \in 1..Len(game_rows)}
    IN  CHOOSE m \in means : \A o \in means : MeanLeq(o, m)

\* mutant of C5: the +1 of line 208 is lost
HasEnoughData_OffByOne(n, lookback_months) == ~(n < lookback_months)

\* line 208, negated: the game is analysed
HasEnoughData(n, lookback_months) == ~(n < lookback_months + 1)

\* line 213: avg_players < rolling_avg.max() * player_threshold_pct
BelowThreshold(avg_players, max_mean, player_threshold_pct) ==
    avg_players * max_mean[2] * 100 < max_mean[1] * player_threshold_pct

\* positions of game_df[game_df["avg_players"] < threshold]
ChurnedPositions(game_rows, player_threshold_pct, lookback_months) ==
    {i \in 1..Len(game_rows) :
        BelowThreshold(game_rows[i].avg_players,
                       MaxRollingMean(game_rows, lookback_months),
                       player_threshold_pct)}

\* mutant of C6: churned.iloc[-1] instead of churned.iloc[0]
ChurnPosition_Last(positions) == CHOOSE i \in positions : \A j \in positions : j <= i

\* line 216: churned.iloc[0]
ChurnPosition(positions) == CHOOSE i \in positions : \A j \in positions : i <= j

\* lines 212-246: the record of one analysed game
ChurnRecord(game_rows, player_threshold_pct, lookback_months) ==
    LET positions == ChurnedPositions(game_rows, player_threshold_pct, lookback_months)
        first_date == game_rows[1].date
    IN  IF positions # {}
        THEN LET churn_date == game_rows[ChurnPosition(positions)].date
             IN  [game_id |-> game_rows[1].game_id,
                  churn_date |-> churn_date,
                  time_to_churn_months |-> MonthsBetween(first_date, churn_date),
                  churned |-> TRUE]
        ELSE LET last_date == game_rows[Len(game_rows)].date
             IN  [game_id |-> game_rows[1].game_id,
                  churn_date |-> NaN,
                  time_to_churn_months |-> MonthsBetween(first_date, last_date),
                  churned |-> FALSE]

\* the loop of lines 204-246 over the first n unique games
RECURSIVE ChurnLoop(_, _, _, _, _)
ChurnLoop(rows, game_ids, n, player_threshold_pct, lookback_months) ==
    IF n = 0 THEN <<>>
    ELSE LET done == ChurnLoop(rows, game_ids, n - 1, player_threshold_pct,
                               lookback_months)
             game_rows == GameRows(rows, game_ids[n])
         IN  IF ~HasEnoughData(Len(game_rows), lookback_months) THEN done
             ELSE Append(done, ChurnRecord(game_rows, player_threshold_pct,
                                           lookback_months))

\* the whole function
calculate_churn_events(frame, player_threshold_pct, lookback_months) ==
    LET sorted == SortValues(frame)
        game_ids == UniqueGameIds(sorted.rows)
        churn_events == ChurnLoop(sorted.rows, game_ids, Len(game_ids),
                                  player_threshold_pct, lookback_months)
    IN  DataFrame(IF churn_events = <<>> THEN {} ELSE ChurnColumns, churn_events)

(***************************************************************************)
(* SpecChurn: calculate_churn_events called on a caller's table            *)
(***************************************************************************)
MaxChurnRows == 4

ChurnGameIds == {1, 2}

ChurnKeys ==
    ChurnGameIds \X {Date(2024, 11, 15), Date(2024, 12, 31), Date(2025, 1, 1),
                     Date(2025, 3, 1)}

ChurnPlayers == {40, 100, 300}

ChurnFrame(ks, players, descending) ==
    LET keys == KeysAscending(ks)
        rows == [i \in 1..Len(keys) |->
                   [game_id |-> keys[i][1], date |-> keys[i][2],
                    avg_players |-> players[keys[i]]]]
    IN  DataFrame({"game_id", "date", "avg_players"},
                  IF descending THEN Reverse(rows) ELSE rows)

InitChurn ==
    /\ pc = "ready"
    /\ \E ks \in {s \in SUBSET ChurnKeys : Cardinality(s) <= MaxChurnRows} :
       \E players \in [ks -> ChurnPlayers] :
       \E descending \in BOOLEAN :
          df = ChurnFrame(ks, players, descending)
    /\ args \in [player_threshold_pct : {DefaultPlayerThresholdPct, 100},
                 lookback_months : {1, 2, DefaultLookbackMonths}]
    /\ ret = NoReturn
    /\ NoDiDModel
    /\ NoOtherModels

CalculateChurnEvents ==
    /\ pc = "ready"
    /\ LET out == calculate_churn_events(df, args.player_threshold_pct,
                                         args.lookback_months)
       IN  ret' = [raised |-> FALSE, columns |-> out.columns, rows |-> out.rows]
    /\ pc' = "done"
    /\ UNCHANGED <<df, args>>
    /\ UNCHANGED did_vars
    /\ UNCHANGED other_models

NextChurn == CalculateChurnEvents

SpecChurn == InitChurn /\ [][NextChurn]_vars

(***************************************************************************)
(* Claims about calculate_churn_events                                     *)
(***************************************************************************)
RowsOfGame(g) == {r \in Range(df.rows) : r.game_id = g}

RecordsOfGame(g) == {i \in 1..Len(ret.rows) : ret.rows[i].game_id = g}

\* C5: one record for each entity with at least lookback_months + 1
\* observations, none for any other entity, and no negative duration.
C5_OneRecordPerAnalysedEntity ==
    pc = "done" =>
        /\ \A g \in ChurnGameIds :
              Cardinality(RecordsOfGame(g)) =
                  IF Cardinality(RowsOfGame(g)) >= args.lookback_months + 1
                  THEN 1 ELSE 0
        /\ \A i \in 1..Len(ret.rows) :
              /\ ret.rows[i].game_id \in ChurnGameIds
              /\ ret.rows[i].time_to_churn_months >= 0

C5_Witness ==
    /\ pc = "done"
    /\ Cardinality(RowsOfGame(1)) = args.lookback_months
    /\ Cardinality(RowsOfGame(2)) = args.lookback_months + 1
    /\ Len(ret.rows) = 1
    /\ ret.rows[1].game_id = 2

\* the entity's observations in time order
SeriesOf(g) == GameRows(SortedRows, g)

\* the entity's rolling means, one <<sum, count>> for each of its rows: the
\* mean of that row and of the up to lookback_months - 1 rows before it
RollingMeansOf(series) ==
    {<<SumPlayers(series, Max2(1, t - args.lookback_months + 1), t),
       t - Max2(1, t - args.lookback_months + 1) + 1>> : t \in 1..Len(series)}

\* positions with avg_players < (some rolling mean) x threshold_pct, which is
\* avg_players < (the maximum rolling mean) x threshold_pct
CrossingsOf(series) ==
    LET means == RollingMeansOf(series)
    IN  {i \in 1..Len(series) :
            \E m \in means :
                series[i].avg_players * m[2] * 100
                    < m[1] * args.player_threshold_pct}

None == NaN

NaT == 0 - 2

Timestamp(d) == 2 * d

RECURSIVE InsertInt(_, _)
InsertInt(sorted, v) ==
    IF sorted = <<>> THEN <<v>>
    ELSE IF v < sorted[Len(sorted)]
         THEN Append(InsertInt(SubSeq(sorted, 1, Len(sorted) - 1), v),
                     sorted[Len(sorted)])
         ELSE Append(sorted, v)

RECURSIVE SortInts(_)
SortInts(values) ==
    IF values = <<>> THEN <<>>
    ELSE InsertInt(SortInts(SubSeq(values, 1, Len(values) - 1)), values[Len(values)])

\* Series.median() of a column of dates: a timestamp, NaT for no value
Median(values) ==
    LET sorted == SortInts(values)
        n == Len(sorted)
    IN  IF n = 0 THEN NaT
        ELSE IF n % 2 = 1 THEN Timestamp(sorted[(n + 1) \div 2])
        ELSE sorted[n \div 2] + sorted[(n \div 2) + 1]

Column(frame, c) == [i \in 1..Len(frame.rows) |-> frame.rows[i][c]]

\* frame[c] = v
AssignColumn(frame, c, v) ==
    DataFrame(frame.columns \cup {c},
              [i \in 1..Len(frame.rows) |->
                 [k \in frame.columns \cup {c} |->
                    IF k = c THEN v ELSE frame.rows[i][k]]])

\* pd.concat([a, b], ignore_index=True)
Concat(a, b) ==
    LET columns == a.columns \cup b.columns
        fill(frame) == [i \in 1..Len(frame.rows) |->
                          [k \in columns |->
                             IF k \in frame.columns THEN frame.rows[i][k] ELSE NaN]]
    IN  DataFrame(columns, fill(a) \o fill(b))

NoFit == [fitted |-> FALSE]

NoStat == [stat |-> "None"]

\* __init__, lines 51-59
DifferenceInDifferencesModel(treatment_df, control_df, outcome_col, treatment_date) ==
    [treatment_df |-> prepare_panel_data(treatment_df),
     control_df |-> prepare_panel_data(control_df),
     outcome_col |-> outcome_col,
     treatment_date |-> treatment_date,
     model_result |-> NoFit,
     att |-> NoStat,
     standard_error |-> NoStat,
     p_value |-> NoStat]

\* lines 76-83
ResolveTreatmentDate(treatment_date, treatment_frame, combined) ==
    IF treatment_date # None THEN treatment_date
    ELSE LET discount_events ==
                 identify_discount_events(treatment_frame, DefaultMinDiscountPct,
                                          DefaultMinDurationDays)
         IN  IF Len(discount_events.rows) > 0
             THEN Median(Column(discount_events, "start_date"))
             ELSE Median(Column(combined, "date"))

\* mutant of C7: date > treatment_date
PostIndicator_Strict(date, treatment_date) ==
    IF treatment_date # NaT /\ Timestamp(date) > treatment_date THEN 1 ELSE 0

\* line 86: (combined["date"] >= self.treatment_date).astype(int)
PostIndicator(date, treatment_date) ==
    IF treatment_date # NaT /\ Timestamp(date) >= treatment_date THEN 1 ELSE 0

\* lines 68-73: both panels tagged with their group and stacked
TagAndCombine(self) ==
    [self |-> [self EXCEPT
                 !.treatment_df = AssignColumn(self.treatment_df, "treatment", 1),
                 !.control_df = AssignColumn(self.control_df, "treatment", 0)],
     combined |-> Concat(AssignColumn(self.treatment_df, "treatment", 1),
                         AssignColumn(self.control_df, "treatment", 0))]

\* lines 76-83
ResolveDate(prep) ==
    [prep EXCEPT !.self.treatment_date =
        ResolveTreatmentDate(prep.self.treatment_date, prep.self.treatment_df,
                             prep.combined)]

\* lines 86-89
AddIndicators(prep) ==
    [prep EXCEPT !.combined =
        DataFrame(prep.combined.columns \cup {"post", "treatment_post"},
          [i \in 1..Len(prep.combined.rows) |->
             [k \in prep.combined.columns \cup {"post", "treatment_post"} |->
                IF k = "post"
                THEN PostIndicator(prep.combined.rows[i].date,
                                   prep.self.treatment_date)
                ELSE IF k = "treatment_post"
                THEN prep.combined.rows[i].treatment
                       * PostIndicator(prep.combined.rows[i].date,
                                       prep.self.treatment_date)
                ELSE prep.combined.rows[i][k]]])]

\* _prepare_did_data, lines 61-91: the model after the call and the table
prepare_did_data(self) == AddIndicators(ResolveDate(TagAndCombine(self)))

\* did_data.dropna(subset=[outcome_col])
DropNa(frame, c) ==
    DataFrame(frame.columns, SelectSeq(frame.rows, LAMBDA r : r[c] # NaN))

FillNa0(v) == IF v = NaN THEN 0 ELSE v

\* lines 112-122
XCols(columns, include_covariates) ==
    <<"treatment", "post", "treatment_post">>
        \o (IF include_covariates /\ "current_price" \in columns
            THEN <<"current_price">> ELSE <<>>)

\* add_constant(X) with its default has_constant='skip': no intercept is
\* added when a column of X is already a non-zero constant
HasConstantColumn(x_cols, rows) ==
    /\ rows # <<>>
    /\ \E k \in 1..Len(x_cols) :
          /\ FillNa0(rows[1][x_cols[k]]) # 0
          /\ \A i \in 1..Len(rows) :
                FillNa0(rows[i][x_cols[k]]) = FillNa0(rows[1][x_cols[k]])

\* lines 125-127: X = add_constant(did_data[X_cols].fillna(0)), y
DesignMatrix(frame, x_cols, outcome_col) ==
    LET names == IF HasConstantColumn(x_cols, frame.rows) THEN x_cols
                 ELSE <<"const">> \o x_cols
    IN  [exog_names |-> names,
         exog |-> [i \in 1..Len(frame.rows) |->
                     [k \in 1..Len(names) |->
                        IF names[k] = "const" THEN 1
                        ELSE FillNa0(frame.rows[i][names[k]])]],
         endog |-> Column(frame, outcome_col)]

\* the design has a non-trivial null vector with small integer coefficients,
\* hence fewer independent columns than columns
RankDeficient(design) ==
    \E c \in [1..Len(design.exog_names) -> (0 - 2)..2] :
        /\ \E k \in 1..Len(design.exog_names) : c[k] # 0
        /\ \A i \in 1..Len(design.exog) :
              LET row == design.exog[i]
                  n == Len(row)
                  dot[k \in 0..n] == IF k = 0 THEN 0 ELSE dot[k - 1] + c[k] * row[k]
              IN  dot[n] = 0

\* model.fit(): the fitted model
Fit(design) ==
    [fitted |-> TRUE, exog_names |-> design.exog_names, exog |-> design.exog,
     endog |-> design.endog]

\* result.params[column], result.bse[column], result.pvalues[column]
Stat(fit, stat, column) == [stat |-> stat, column |-> column, fit |-> fit]

\* lines 130-132 and 169-171: OLS(y, X).fit() solves by pseudo-inverse and
\* raises only when the library itself fails (fit_error), whatever the rank
FitRaises(design, fit_error) == fit_error

\* mutant of C8: the check of line 108 is gone
NoValidData_Unchecked(frame) == FALSE

\* line 108
NoValidData(frame) == Len(frame.rows) = 0

\* an exception leaves estimate: the model keeps what _prepare_did_data did
EstimateRaised(prep, raised) ==
    [self |-> prep.self, raised |-> raised, value |-> NoStat,
     did_data |-> prep.combined]

\* lines 134-167: the estimates are stored on the model and bundled
EstimateReturned(prep, fit) ==
    [self |-> [prep.self EXCEPT
                 !.model_result = fit,
                 !.att = Stat(fit, "params", "treatment_post"),
                 !.standard_error = Stat(fit, "bse", "treatment_post"),
                 !.p_value = Stat(fit, "pvalues", "treatment_post")],
     raised |-> "",
     value |-> [att |-> Stat(fit, "params", "treatment_post"),
                standard_error |-> Stat(fit, "bse", "treatment_post"),
                p_value |-> Stat(fit, "pvalues", "treatment_post"),
                n_obs |-> Len(fit.endog),
                treatment_date |-> prep.self.treatment_date,
                model_params |-> fit],
     did_data |-> prep.combined]

\* lines 129-132 and 169-171
Regress(prep, design, fit_error) ==
    IF FitRaises(design, fit_error) THEN EstimateRaised(prep, "LinAlgError")
    ELSE EstimateReturned(prep, Fit(design))

\* lines 105-127
EstimateOn(prep, data, include_covariates, fit_error) ==
    IF NoValidData(data) THEN EstimateRaised(prep, "ValueError")
    ELSE Regress(prep,
                 DesignMatrix(data, XCols(data.columns, include_covariates),
                              prep.self.outcome_col),
                 fit_error)

\* Mutant of C23: a model that was fitted before hands back its stored fit
estimate_Cached(self, include_covariates, fit_error) ==
    IF self.model_result # NoFit
    THEN EstimateReturned(prepare_did_data(self), self.model_result)
    ELSE EstimateOn(prepare_did_data(self),
                    DropNa(prepare_did_data(self).combined, self.outcome_col),
                    include_covariates, fit_error)

\* estimate, lines 93-171: the model after the call, what it raised ("" for
\* a normal return), the result bundle and the table of line 103
estimate(self, include_covariates, fit_error) ==
    EstimateOn(prepare_did_data(self),
               DropNa(prepare_did_data(self).combined, self.outcome_col),
               include_covariates, fit_error)

(***************************************************************************)
(* SpecDiD: a model is constructed from a treatment and a control table    *)
(* and its methods are called                                              *)
(***************************************************************************)
MaxGroupRows == 2

DiDDates == {Date(2024, 1, 1), Date(2024, 1, 8), Date(2024, 2, 12)}

\* the treatment panel is game 1, the control panel game 2
\* (avg_players, is_discount_active)
TreatmentCells == {NaN, 100} \X BOOLEAN

ControlCells == {NaN, 100} \X {FALSE}

\* the current_price of the treatment rows and of the control rows; <<>>
\* when the tables have no current_price column
PriceChoices == {<<>>, <<1, 2>>}

SuppliedDates ==
    {None, Timestamp(Date(2024, 1, 8)), Timestamp(Date(2024, 9, 1))}

DiDFrame(game_id, dates, cell, price) ==
    LET keys == KeysAscending({game_id} \X dates)
        columns == {"game_id", "date", "avg_players", "is_discount_active",
                    "discount_pct"}
                   \cup (IF price = NaN THEN {} ELSE {"current_price"})
    IN  DataFrame(columns,
          [i \in 1..Len(keys) |->
             Restrict([game_id |-> game_id, date |-> keys[i][2],
                       avg_players |-> cell[keys[i][2]][1],
                       is_discount_active |-> cell[keys[i][2]][2],
                       discount_pct |-> IF cell[keys[i][2]][2] THEN 50 ELSE 0,
                       current_price |-> price], columns)])

DiDInputs ==
    \E tdates \in {d \in SUBSET DiDDates : Cardinality(d) <= MaxGroupRows} :
    \E cdates \in {d \in SUBSET DiDDates : Cardinality(d) <= MaxGroupRows} :
    \E tcell \in [tdates -> TreatmentCells] :
    \E ccell \in [cdates -> ControlCells] :
    \E price \in PriceChoices :
    \E treatment_date \in SuppliedDates :
        args = [treatment_df |->
                   DiDFrame(1, tdates, tcell,
                            IF price = <<>> THEN NaN ELSE price[1]),
                control_df |->
                   DiDFrame(2, cdates, ccell,
                            IF price = <<>> THEN NaN ELSE price[2]),
                outcome_col |-> "avg_players",
                treatment_date |-> treatment_date]

NoCall == [op |-> "none", raised |-> "", value |-> NoStat]

InitDiD ==
    /\ pc = "constructed"
    /\ DiDInputs
    /\ did_model = DifferenceInDifferencesModel(args.treatment_df, args.control_df,
                                                args.outcome_col, args.treatment_date)
    /\ did_data = DataFrame({}, <<>>)
    /\ call = NoCall
    /\ locals = [stage |-> "none"]
    /\ df = DataFrame({}, <<>>)
    /\ ret = NoReturn
    /\ NoOtherModels

Estimate ==
    /\ pc = "constructed"
    /\ \E include_covariates \in BOOLEAN, fit_error \in BOOLEAN :
       \E r \in {estimate(did_model, include_covariates, fit_error)} :
          /\ did_model' = r.self
          /\ did_data' = r.did_data
          /\ call' = [op |-> "estimate",
                      include_covariates |-> include_covariates,
                      raised |-> r.raised, value |-> r.value]
    /\ UNCHANGED <<pc, df, args, ret, locals>>
    /\ UNCHANGED other_models

NextDiD == Estimate

SpecDiD == InitDiD /\ [][NextDiD]_vars

(***************************************************************************)
(* Claims about _prepare_did_data and estimate                             *)
(***************************************************************************)
\* v is the k-th smallest of values
IsOrderStat(values, k, v) ==
    /\ Cardinality({i \in 1..Len(values) : values[i] < v}) < k
    /\ k <= Cardinality({i \in 1..Len(values) : values[i] <= v})

\* ts is the median timestamp of the dates: the middle one, or the midpoint
\* of the two middle ones; NaT when there is none
IsMedianOf(ts, dates) ==
    IF Len(dates) = 0 THEN ts = NaT
    ELSE \E a \in Range(dates), b \in Range(dates) :
            /\ IsOrderStat(dates, (Len(dates) + 1) \div 2, a)
            /\ IsOrderStat(dates, (Len(dates) \div 2) + 1, b)
            /\ ts = a + b

DetectedStarts ==
    Column(identify_discount_events(args.treatment_df, DefaultMinDiscountPct,
                                    DefaultMinDurationDays), "start_date")

CallerDates == Column(args.treatment_df, "date") \o Column(args.control_df, "date")

AllOutcomesMissing ==
    /\ \A i \in 1..Len(args.treatment_df.rows) :
          args.treatment_df.rows[i].avg_players = NaN
    /\ \A i \in 1..Len(args.control_df.rows) :
          args.control_df.rows[i].avg_players = NaN

\* C8: when no row remains after dropping the rows whose outcome is missing,
\* estimate raises and att, standard_error and p_value stay as they were
\* before the call
C8_EmptyDataFails ==
    [][(call'.op = "estimate" /\ AllOutcomesMissing) =>
          /\ call'.raised = "ValueError"
          /\ did_model'.att = did_model.att
          /\ did_model'.standard_error = did_model.standard_error
          /\ did_model'.p_value = did_model.p_value
          /\ did_model'.model_result = did_model.model_result]_vars

\* estimate raised on tables that have rows, all with a missing outcome
C8_Witness ==
    /\ call.op = "estimate"
    /\ call.raised = "ValueError"
    /\ Len(args.treatment_df.rows) > 0
    /\ Len(args.control_df.rows) > 0
    /\ AllOutcomesMissing
    /\ did_model.att = NoStat

\* the design matrix the last estimate call was fitted on
LastDesign ==
    LET data == DropNa(did_data, "avg_players")
    IN  DesignMatrix(data, XCols(data.columns, call.include_covariates),
                     "avg_players")

\* C9: estimate fails, instead of returning a result bundle, whenever the
\* design matrix is column-rank-deficient
C9_RankDeficientDesignFails ==
    (/\ call.op = "estimate"
     /\ ~AllOutcomesMissing
     /\ call.raised = "") => ~RankDeficient(LastDesign)

(***************************************************************************)
(* validate_parallel_trends, placebo_test, event_study                     *)
(***************************************************************************)
\* the distinct time_period values, ascending: the index of groupby().mean()
Periods(frame) ==
    LET ps == {frame.rows[i].time_period : i \in 1..Len(frame.rows)}
        asc[left \in SUBSET ps] ==
            IF left = {} THEN <<>>
            ELSE LET v == CHOOSE v \in left : \A u \in left : v <= u
                 IN  <<v>> \o asc[left \ {v}]
    IN  asc[ps]

\* the mean of the non-missing outcomes of one period, as <<sum, count>>;
\* a count of 0 is the missing mean of a period that has none
PeriodMean(frame, outcome_col, period) ==
    LET vals == SelectSeq(frame.rows,
                          LAMBDA r : r.time_period = period /\ r[outcome_col] # NaN)
        total[k \in 0..Len(vals)] ==
            IF k = 0 THEN 0 ELSE total[k - 1] + vals[k][outcome_col]
    IN  <<total[Len(vals)], Len(vals)>>

\* frame.groupby("time_period")[outcome_col].mean()
PeriodMeans(frame, outcome_col) ==
    LET periods == Periods(frame)
    IN  [i \in 1..Len(periods) |->
           [time_period |-> periods[i],
            mean |-> PeriodMean(frame, outcome_col, periods[i])]]

\* line 311: treatment_means.index < pre_treatment_periods
PreTreatment(treatment_means, pre_treatment_periods) ==
    [i \in 1..Len(treatment_means) |->
        treatment_means[i].time_period < pre_treatment_periods]

\* means[mask].values, for a mask as long as the series
MaskValues(means, mask) ==
    LET take[k \in 0..Len(means)] ==
            IF k = 0 THEN <<>>
            ELSE IF mask[k] THEN Append(take[k - 1], means[k].mean)
            ELSE take[k - 1]
    IN  take[Len(means)]

\* a float that is not a number
NanStat == [stat |-> "nan"]

\* the sum of the squares of 0..n-1
SumSquares(n) == ((n - 1) * n * (2 * n - 1)) \div 6

\* lines 316-317: np.polyfit(range(len(y)), y, 1)[0], the least-squares
\* slope of the means y = <<sum, count>> over x = 0..n-1 for n >= 2; a
\* missing mean makes it NaN
PolyfitSlope(y) ==
    IF \E i \in 1..Len(y) : y[i][2] = 0 THEN NanStat
    ELSE Ratio(RatioSum([i \in 1..Len(y) |->
                           Ratio((Len(y) * (i - 1)
                                    - ((Len(y) * (Len(y) - 1)) \div 2)) * y[i][1],
                                 y[i][2])]).num,
               RatioSum([i \in 1..Len(y) |->
                           Ratio((Len(y) * (i - 1)
                                    - ((Len(y) * (Len(y) - 1)) \div 2)) * y[i][1],
                                 y[i][2])]).den
               * (Len(y) * SumSquares(Len(y))
                    - ((Len(y) * (Len(y) - 1)) \div 2) * ((Len(y) * (Len(y) - 1)) \div 2)))

\* line 320: abs(treatment_slope - control_slope)
SlopeDifference(treatment_slope, control_slope) ==
    IF treatment_slope = NanStat \/ control_slope = NanStat THEN NanStat
    ELSE Ratio(Abs(treatment_slope.num * control_slope.den
                     - control_slope.num * treatment_slope.den),
               treatment_slope.den * control_slope.den)

\* Mutant of C25: a difference of exactly ten percent counts as parallel
TrendsValid_Inclusive(slope_diff, treatment_slope) ==
    /\ slope_diff # NanStat
    /\ 10 * slope_diff.num * treatment_slope.den
          <= Abs(treatment_slope.num) * slope_diff.den

\* line 334: slope_diff < 0.1 * abs(treatment_slope); a comparison with NaN
\* is false
TrendsValid(slope_diff, treatment_slope) ==
    /\ slope_diff # NanStat
    /\ 10 * slope_diff.num * treatment_slope.den
          < Abs(treatment_slope.num) * slope_diff.den

\* lines 323-335: the report of the two slopes
TrendsValue(treatment_slope, control_slope, treatment_pre, control_pre) ==
    [treatment_slope |-> treatment_slope,
     control_slope |-> control_slope,
     slope_difference |-> SlopeDifference(treatment_slope, control_slope),
     correlation |->
        IF Len(treatment_pre) = Len(control_pre)
        THEN [stat |-> "pearsonr", x |-> treatment_pre, y |-> control_pre]
        ELSE NoStat,
     p_value |->
        IF Len(treatment_pre) = Len(control_pre)
        THEN [stat |-> "pearsonr_p", x |-> treatment_pre, y |-> control_pre]
        ELSE NoStat,
     parallel_trends_valid |->
        TrendsValid(SlopeDifference(treatment_slope, control_slope),
                    treatment_slope)]

\* lines 316-335: polyfit needs a value, pearsonr two; lib_error is the
\* least-squares routine failing on a series that holds a missing mean
TrendsReport(treatment_pre, control_pre, lib_error) ==
    IF Len(treatment_pre) = 0
    THEN [raised |-> "TypeError", value |-> NoStat]
    ELSE IF Len(treatment_pre) < 2
    THEN [raised |-> "ValueError", value |-> NoStat]
    ELSE IF lib_error
            /\ \E m \in Range(treatment_pre) \cup Range(control_pre) : m[2] = 0
    THEN [raised |-> "LinAlgError", value |-> NoStat]
    ELSE [raised |-> "",
          value |-> TrendsValue(PolyfitSlope(treatment_pre),
                                PolyfitSlope(control_pre),
                                treatment_pre, control_pre)]

\* validate_parallel_trends, utils.py lines 284-335: the mask of line 311 is
\* taken from the treatment means and applied to both series, which fails
\* on a control series of another length
validate_parallel_trends(treatment_df, control_df, outcome_col, pre_treatment_periods, lib_error) ==
    IF Len(PeriodMeans(control_df, outcome_col))
          # Len(PeriodMeans(treatment_df, outcome_col))
    THEN [raised |-> "IndexError", value |-> NoStat]
    ELSE TrendsReport(
             MaskValues(PeriodMeans(treatment_df, outcome_col),
                        PreTreatment(PeriodMeans(treatment_df, outcome_col),
                                     pre_treatment_periods)),
             MaskValues(PeriodMeans(control_df, outcome_col),
                        PreTreatment(PeriodMeans(treatment_df, outcome_col),
                                     pre_treatment_periods)),
             lib_error)

\* parallel_trends_test, lines 173-192
parallel_trends_test(self, lib_error) ==
    validate_parallel_trends(self.treatment_df, self.control_df, self.outcome_col,
                             3, lib_error)

\* ts - pd.DateOffset(months=k): same day of the month, clipped to the length
\* of the month, same time of day
SubMonths(ts, k) ==
    LET d == ts \div 2
        idx == MonthIndex(d) - k
    IN  2 * (MonthStarts[idx] + Min2(DayOf(d), DaysInMonth(idx)) - 1) + (ts % 2)

\* lines 217-228
PlaceboReport(placebo_results, fake_treatment_date) ==
    IF placebo_results.raised # ""
    THEN [raised |-> placebo_results.raised, value |-> NoStat]
    ELSE [raised |-> "",
          value |-> [placebo_att |-> placebo_results.value.att,
                     placebo_p_value |-> placebo_results.value.p_value,
                     placebo_date |-> fake_treatment_date]]

\* placebo_test, lines 194-228: a new model on copies of the panels, with
\* the fake date, estimated without covariates
placebo_test(self, fake_treatment_date, fit_error) ==
    PlaceboReport(
        estimate(DifferenceInDifferencesModel(self.treatment_df, self.control_df,
                                              self.outcome_col, fake_treatment_date),
                 FALSE, fit_error),
        fake_treatment_date)

\* lines 244-250: months from the treatment date to the row's date
EventTime(date, treatment_date) == MonthsBetween(treatment_date \div 2, date)

\* lines 253-256: the rows inside the event window
EventWindow(prep, periods_before, periods_after) ==
    SelectSeq(prep.combined.rows,
              LAMBDA r :
                 /\ prep.self.treatment_date # NaT
                 /\ EventTime(r.date, prep.self.treatment_date) >= 0 - periods_before
                 /\ EventTime(r.date, prep.self.treatment_date) <= periods_after)

\* lines 259-263: get_dummies(drop_first=True) keeps every event time of the
\* window but the smallest
EventDummies(event_data, treatment_date) ==
    {t \in {EventTime(event_data[i].date, treatment_date) : i \in 1..Len(event_data)} :
        \E i \in 1..Len(event_data) : EventTime(event_data[i].date, treatment_date) < t}

\* lines 266-272; a column of the regression is named by a pair,
\* <<"treatment_event_t", k>> for the interaction with event time k
EventXCols(event_times) ==
    {<<"treatment", 0>>} \cup {<<"treatment_event_t", t>> : t \in event_times}

EventCell(r, name, treatment_date) ==
    IF name[1] = "const" THEN 1
    ELSE IF name[1] = "treatment" THEN r.treatment
    ELSE IF EventTime(r.date, treatment_date) = name[2] THEN r.treatment
    ELSE 0

\* line 274, add_constant(X) with has_constant='skip'
EventExogNames(event_data, x_cols, treatment_date) ==
    IF \E name \in x_cols :
          /\ EventCell(event_data[1], name, treatment_date) # 0
          /\ \A i \in 1..Len(event_data) :
                EventCell(event_data[i], name, treatment_date)
                   = EventCell(event_data[1], name, treatment_date)
    THEN x_cols
    ELSE x_cols \cup {<<"const", 0>>}

\* lines 273-279
EventFit(event_data, exog_names, treatment_date, outcome_col) ==
    [fitted |-> TRUE,
     exog_names |-> exog_names,
     exog |-> [i \in 1..Len(event_data) |->
                 [name \in exog_names |->
                    EventCell(event_data[i], name, treatment_date)]],
     endog |-> [i \in 1..Len(event_data) |-> event_data[i][outcome_col]]]

\* lines 282-294
EventCoefficients(fit, event_times) ==
    [t \in event_times |->
        [event_time |-> t,
         coefficient |-> Stat(fit, "params", <<"treatment_event_t", t>>),
         std_error |-> Stat(fit, "bse", <<"treatment_event_t", t>>),
         p_value |-> Stat(fit, "pvalues", <<"treatment_event_t", t>>)]]

\* Mutant of C26: the event study takes the place of the model's stored fit
EventStudyOn_StoresFit(prep, event_data, fit_error) ==
    IF Len(event_data) = 0 THEN EstimateRaised(prep, "ValueError")
    ELSE IF fit_error THEN EstimateRaised(prep, "LinAlgError")
    ELSE [self |-> [prep.self EXCEPT !.model_result = NoFit, !.att = NoStat],
          raised |-> "",
          value |-> NoStat,
          did_data |-> prep.combined]

\* lines 253-298: OLS refuses an empty window; fit_error is the library
\* failing on a window that has rows
EventStudyOn(prep, event_data, fit_error) ==
    IF Len(event_data) = 0 THEN EstimateRaised(prep, "ValueError")
    ELSE IF fit_error THEN EstimateRaised(prep, "LinAlgError")
    ELSE [self |-> prep.self,
          raised |-> "",
          value |->
             EventCoefficients(
                 EventFit(event_data,
                          EventExogNames(
                              event_data,
                              EventXCols(EventDummies(event_data,
                                                      prep.self.treatment_date)),
                              prep.self.treatment_date),
                          prep.self.treatment_date, prep.self.outcome_col),
                 EventDummies(event_data, prep.self.treatment_date)),
          did_data |-> prep.combined]

\* event_study, lines 230-298: the model after the call, what it raised and
\* the coefficient table
event_study(self, periods_before, periods_after, fit_error) ==
    EventStudyOn(prepare_did_data(self),
                 EventWindow(prepare_did_data(self), periods_before, periods_after),
                 fit_error)

(***************************************************************************)
(* SpecRunDiD: run_did_analysis, one action per step of its body           *)
(***************************************************************************)
\* what leaves a try block whose handler is "except Exception" and only
\* logs: nothing.  Mutant of C10: the handler re-raises
TryExcept_Reraise(raised) == raised

\* lines 338-341 and 346-350
TryExcept(raised) == ""

RunTreatmentCells == {NaN, 100} \X {TRUE}

RunDiDInputs ==
    \E tdates \in {d \in SUBSET DiDDates : Cardinality(d) <= MaxGroupRows} :
    \E cdates \in {d \in SUBSET DiDDates : Cardinality(d) <= MaxGroupRows} :
    \E tcell \in [tdates -> RunTreatmentCells] :
    \E ccell \in [cdates -> ControlCells] :
    \E treatment_date \in SuppliedDates :
    \E run_placebo \in BOOLEAN, run_event_study \in BOOLEAN :
        args = [treatment_df |-> DiDFrame(1, tdates, tcell, 1),
                control_df |-> DiDFrame(2, cdates, ccell, 2),
                outcome_col |-> "avg_players",
                treatment_date |-> treatment_date,
                run_placebo |-> run_placebo,
                run_event_study |-> run_event_study]

InitRunDiD ==
    /\ pc = "main_estimation"
    /\ RunDiDInputs
    /\ did_model = [constructed |-> FALSE]
    /\ did_data = DataFrame({}, <<>>)
    /\ call = NoCall
    /\ locals = [main_results |-> NoStat, parallel_trends |-> NoStat,
                 placebo_results |-> NoStat, event_study_results |-> NoStat,
                 placebo_raised |-> "", event_study_raised |-> ""]
    /\ df = DataFrame({}, <<>>)
    /\ ret = [raised |-> "", value |-> NoStat]
    /\ NoOtherModels

\* lines 324-329
MainEstimation ==
    /\ pc = "main_estimation"
    /\ \E fit_error \in BOOLEAN :
       \E r \in {estimate(DifferenceInDifferencesModel(
                              args.treatment_df, args.control_df,
                              args.outcome_col, args.treatment_date),
                          TRUE, fit_error)} :
          /\ did_model' = r.self
          /\ did_data' = r.did_data
          /\ call' = [op |-> "estimate", include_covariates |-> TRUE,
                      raised |-> r.raised, value |-> r.value]
          /\ locals' = [locals EXCEPT !.main_results = r.value]
          /\ pc' = IF r.raised = "" THEN "parallel_trends" ELSE "raised"
          /\ ret' = [raised |-> r.raised, value |-> NoStat]
    /\ UNCHANGED <<df, args>>
    /\ UNCHANGED other_models

\* line 332
ParallelTrendsTest ==
    /\ pc = "parallel_trends"
    /\ \E lib_error \in BOOLEAN :
       \E r \in {parallel_trends_test(did_model, lib_error)} :
          /\ call' = [op |-> "parallel_trends_test", raised |-> r.raised,
                      value |-> r.value]
          /\ locals' = [locals EXCEPT !.parallel_trends = r.value]
          /\ pc' = IF r.raised = "" THEN "placebo_test" ELSE "raised"
          /\ ret' = [raised |-> r.raised, value |-> NoStat]
    /\ UNCHANGED <<df, args, did_model, did_data>>
    /\ UNCHANGED other_models

\* lines 335-341
PlaceboTest ==
    /\ pc = "placebo_test"
    /\ IF args.run_placebo /\ did_model.treatment_date # None
       THEN \E fit_error \in BOOLEAN :
            \E r \in {placebo_test(did_model,
                                   SubMonths(did_model.treatment_date, 3),
                                   fit_error)} :
               /\ call' = [op |-> "placebo_test", raised |-> r.raised,
                           value |-> r.value]
               /\ locals' = [locals EXCEPT !.placebo_results = r.value,
                                           !.placebo_raised = r.raised]
               /\ pc' = IF TryExcept(r.raised) = "" THEN "event_study"
                        ELSE "raised"
               /\ ret' = [raised |-> TryExcept(r.raised), value |-> NoStat]
       ELSE /\ pc' = "event_study"
            /\ UNCHANGED <<call, locals, ret>>
    /\ UNCHANGED <<df, args, did_model, did_data>>
    /\ UNCHANGED other_models

\* lines 344-350
EventStudy ==
    /\ pc = "event_study"
    /\ IF args.run_event_study
       THEN \E fit_error \in BOOLEAN :
            \E r \in {event_study(did_model, 3, 3, fit_error)} :
               /\ did_model' = r.self
               /\ did_data' = r.did_data
               /\ call' = [op |-> "event_study", raised |-> r.raised,
                           value |-> r.value]
               /\ locals' = [locals EXCEPT !.event_study_results = r.value,
                                           !.event_study_raised = r.raised]
               /\ pc' = IF TryExcept(r.raised) = "" THEN "compile_results"
                        ELSE "raised"
               /\ ret' = [raised |-> TryExcept(r.raised), value |-> NoStat]
       ELSE /\ pc' = "compile_results"
            /\ UNCHANGED <<call, locals, ret, did_model, did_data>>
    /\ UNCHANGED <<df, args>>
    /\ UNCHANGED other_models

\* lines 353-365
CompileResults ==
    /\ pc = "compile_results"
    /\ ret' = [raised |-> "",
               value |-> [main_estimation |-> locals.main_results,
                          parallel_trends |-> locals.parallel_trends,
                          placebo_test |-> locals.placebo_results,
                          event_study |-> locals.event_study_results,
                          diagnostics |->
                             [treatment_group_size |-> Len(args.treatment_df.rows),
                              control_group_size |-> Len(args.control_df.rows),
                              outcome_variable |-> args.outcome_col]]]
    /\ pc' = "returned"
    /\ UNCHANGED <<df, args, did_model, did_data, call, locals>>
    /\ UNCHANGED other_models

NextRunDiD ==
    \/ MainEstimation
    \/ ParallelTrendsTest
    \/ PlaceboTest
    \/ EventStudy
    \/ CompileResults

SpecRunDiD == InitRunDiD /\ [][NextRunDiD]_vars

(***************************************************************************)
(* Claims about run_did_analysis                                           *)
(***************************************************************************)
\* what the main estimation returns on the caller's tables when the library
\* does not fail
ExpectedMainEstimation ==
    estimate(DifferenceInDifferencesModel(args.treatment_df, args.control_df,
                                          args.outcome_col, args.treatment_date),
             TRUE, FALSE).value

\* the parallel-trends report on the caller's tables
ExpectedParallelTrends ==
    validate_parallel_trends(prepare_panel_data(args.treatment_df),
                             prepare_panel_data(args.control_df),
                             args.outcome_col, 3, FALSE).value

\* C10: once the main estimation has succeeded, a failure raised inside the
\* placebo test or inside the event study never reaches the caller, and the
\* returned bundle holds main_estimation, parallel_trends and diagnostics
\* exactly as without the failure
C10_DiagnosticFailuresContained ==
    /\ (locals.placebo_raised # "" \/ locals.event_study_raised # "") =>
          (pc # "raised" /\ ret.raised = "")
    /\ pc = "raised" =>
          (call.op \in {"estimate", "parallel_trends_test"} /\ call.raised # "")
    /\ pc = "returned" =>
          /\ ret.raised = ""
          /\ ret.value.main_estimation = ExpectedMainEstimation
          /\ ret.value.parallel_trends = ExpectedParallelTrends
          /\ ret.value.diagnostics =
                [treatment_group_size |-> Len(args.treatment_df.rows),
                 control_group_size |-> Len(args.control_df.rows),
                 outcome_variable |-> args.outcome_col]

\* the analysis returned although both the placebo test and the event study
\* raised
C10_Witness ==
    /\ pc = "returned"
    /\ locals.placebo_raised # ""
    /\ locals.event_study_raised # ""
    /\ ret.value.main_estimation # NoStat
    /\ ret.value.placebo_test = NoStat
    /\ ret.value.event_study = NoStat

\* C11: a failed placebo test leaves, in the bundle run_did_analysis returns,
\* a placebo_test entry that carries the failure reason
C11_FailedPlaceboReported ==
    (pc = "returned" /\ locals.placebo_raised # "") =>
        /\ ret.value.placebo_test # NoStat
        /\ ret.value.placebo_test.error = locals.placebo_raised

(***************************************************************************)
(* SurvivalAnalysisModel.  A probability is an exact fraction <<num, den>>.*)
(* A fitted library object is kept symbolically, as what it was fitted on. *)
(* Durations are whole months.                                             *)
(***************************************************************************)
MinGroupRecords == 5

MinCoxRecords == 10

\* a key that is absent from a result mapping
Absent == [stat |-> "absent"]

\* float("inf"), the median lifelines reports for a curve that stays above 0.5
Inf == [kind |-> "inf"]

Null == [kind |-> "null"]

Time(t) == [kind |-> "time", t |-> t]

\* __init__, survival.py lines 26-49
SurvivalAnalysisModel(data, duration_col, event_col) ==
    [data |-> data, duration_col |-> duration_col, event_col |-> event_col,
     kmf |-> NoFit, coxph |-> NoFit]

\* the records still under observation just before time t
AtRisk(rows, duration_col, t) ==
    Cardinality({i \in 1..Len(rows) : rows[i][duration_col] >= t})

\* the events observed at time t
Deaths(rows, duration_col, event_col, t) ==
    Cardinality({i \in 1..Len(rows) :
                    rows[i][duration_col] = t /\ rows[i][event_col] = 1})

\* one factor (n - d) / n of the product-limit estimator
KaplanMeierStep(prev, n, d) ==
    IF d = 0 THEN prev ELSE <<prev[1] * (n - d), prev[2] * n>>

\* KaplanMeierFitter.survival_function_ at time t
RECURSIVE SurvivalAt(_, _, _, _)
SurvivalAt(rows, duration_col, event_col, t) ==
    IF t < 0 THEN <<1, 1>>
    ELSE KaplanMeierStep(SurvivalAt(rows, duration_col, event_col, t - 1),
                         AtRisk(rows, duration_col, t),
                         Deaths(rows, duration_col, event_col, t))

\* the index of the survival function: time 0 and every observed duration
Timeline(rows, duration_col) ==
    {0} \cup {rows[i][duration_col] : i \in 1..Len(rows)}

FirstTime(times) ==
    IF times = {} THEN Inf
    ELSE Time(CHOOSE t \in times : \A u \in times : t <= u)

\* KaplanMeierFitter.median_survival_time_: the first time of the index at
\* which the survival function is <= 0.5, infinity when there is none
MedianSurvivalTime(rows, duration_col, event_col) ==
    FirstTime({t \in Timeline(rows, duration_col) :
                 2 * SurvivalAt(rows, duration_col, event_col, t)[1]
                    <= SurvivalAt(rows, duration_col, event_col, t)[2]})

\* KaplanMeierFitter().fit(durations, event_observed, label)
KaplanMeierFit(rows, duration_col, event_col, label) ==
    [fitted |-> TRUE,
     label |-> label,
     survival_function_ |->
        [t \in Timeline(rows, duration_col) |->
            SurvivalAt(rows, duration_col, event_col, t)],
     median_survival_time_ |-> MedianSurvivalTime(rows, duration_col, event_col)]

\* line 109: float(m) if m else None; 0.0 is falsy, inf is not
GroupMedianEntry(median) == IF median = Time(0) THEN Null ELSE median

\* lines 68-87; the library refuses to fit on no record
KaplanMeierOverall(self) ==
    IF Len(self.data.rows) = 0
    THEN [self |-> self, raised |-> "ValueError", value |-> NoStat]
    ELSE [self |-> [self EXCEPT !.kmf =
                      KaplanMeierFit(self.data.rows, self.duration_col,
                                     self.event_col, "Overall")],
          raised |-> "",
          value |-> [overall |->
                       [median_survival_time |->
                           MedianSurvivalTime(self.data.rows, self.duration_col,
                                              self.event_col),
                        survival_function |->
                           KaplanMeierFit(self.data.rows, self.duration_col,
                                          self.event_col, "Overall").survival_function_]]]

\* self.data[groupby_col].unique(): in order of first appearance
RECURSIVE Unique(_, _)
Unique(rows, col) ==
    IF rows = <<>> THEN <<>>
    ELSE IF rows[Len(rows)][col] \in {rows[i][col] : i \in 1..(Len(rows) - 1)}
    THEN Unique(SubSeq(rows, 1, Len(rows) - 1), col)
    ELSE Append(Unique(SubSeq(rows, 1, Len(rows) - 1), col), rows[Len(rows)][col])

\* self.data[self.data[groupby_col] == group]
GroupData(rows, col, group) == SelectSeq(rows, LAMBDA r : r[col] = group)

\* lines 95-99: the groups that get a curve
GroupsWithCurve(self, groupby_col) ==
    {g \in Range(Unique(self.data.rows, groupby_col)) :
        ~(Len(GroupData(self.data.rows, groupby_col, g)) < MinGroupRecords)}

\* lines 101-121
Stratified(self, groupby_col) ==
    [groupby_column |-> groupby_col,
     groups |->
        [g \in GroupsWithCurve(self, groupby_col) |->
            [median_survival_time |->
                GroupMedianEntry(
                    MedianSurvivalTime(GroupData(self.data.rows, groupby_col, g),
                                       self.duration_col, self.event_col)),
             survival_function |->
                KaplanMeierFit(GroupData(self.data.rows, groupby_col, g),
                               self.duration_col, self.event_col,
                               g).survival_function_]],
     median_times |->
        [g \in GroupsWithCurve(self, groupby_col) |->
            MedianSurvivalTime(GroupData(self.data.rows, groupby_col, g),
                               self.duration_col, self.event_col)]]

\* _logrank_test, lines 135-183, on the groups of line 145; lib_error is the
\* library test failing
logrank_test(groups, lib_error) ==
    IF Len(groups) = 2
    THEN IF lib_error THEN [raised |-> "ValueError", value |-> NoStat]
         ELSE [raised |-> "",
               value |-> [test |-> "logrank_test", group1 |-> groups[1],
                          group2 |-> groups[2], compared |-> Range(groups)]]
    ELSE IF lib_error THEN [raised |-> "", value |-> [error |-> "Exception"]]
         ELSE [raised |-> "",
               value |-> [test |-> "multivariate_logrank_test",
                          n_groups |-> Len(groups), compared |-> Range(groups)]]

\* lines 117-126 and 133
KaplanMeierStratified(self, groupby_col, groups, logrank) ==
    IF Len(groups) > 1 /\ logrank.raised # ""
    THEN [self |-> self, raised |-> logrank.raised, value |-> NoStat]
    ELSE [self |-> self, raised |-> "",
          value |-> [stratified |-> Stratified(self, groupby_col),
                     logrank_test |-> IF Len(groups) > 1 THEN logrank.value
                                      ELSE Absent]]

\* kaplan_meier_analysis, lines 51-133; groupby_col "" stands for None
kaplan_meier_analysis(self, groupby_col, lib_error) ==
    IF groupby_col = "" THEN KaplanMeierOverall(self)
    ELSE KaplanMeierStratified(
             self, groupby_col, Unique(self.data.rows, groupby_col),
             logrank_test(Unique(self.data.rows, groupby_col), lib_error))

\* lines 201-202: self.data[[duration_col, event_col] + covariates].dropna()
CompleteRecords(self, covariates) ==
    SelectSeq(self.data.rows,
              LAMBDA r : /\ r[self.duration_col] # NaN
                         /\ r[self.event_col] # NaN
                         /\ \A k \in 1..Len(covariates) : r[covariates[k]] # NaN)

\* mutant of C12: ten records are refused as well
InsufficientCoxData_OffByOne(model_data) == Len(model_data) <= MinCoxRecords

\* line 204
InsufficientCoxData(model_data) == Len(model_data) < MinCoxRecords

\* CoxPHFitter(penalizer).fit(model_data, ...)
CoxFit(model_data, covariates) ==
    [fitted |-> TRUE, covariates |-> covariates, n_obs |-> Len(model_data)]

\* lines 217-246: ph_error is check_assumptions raising
CoxResults(self, model_data, ph_error) ==
    [n_obs |-> Len(model_data),
     n_events |-> Cardinality({i \in 1..Len(model_data) :
                                  model_data[i][self.event_col] = 1}),
     proportionality_test |->
        IF ph_error THEN [error |-> "Exception"]
        ELSE [assumptions_valid |-> TRUE]]

\* lines 204-246: fit_error is the library fit raising
CoxOn(self, model_data, covariates, fit_error, ph_error) ==
    IF InsufficientCoxData(model_data)
    THEN [self |-> self, raised |-> "ValueError", value |-> NoStat]
    ELSE IF fit_error
    THEN [self |-> self, raised |-> "ConvergenceError", value |-> NoStat]
    ELSE [self |-> [self EXCEPT !.coxph = CoxFit(model_data, covariates)],
          raised |-> "",
          value |-> CoxResults(self, model_data, ph_error)]

\* cox_proportional_hazards, lines 185-246
cox_proportional_hazards(self, covariates, fit_error, ph_error) ==
    CoxOn(self, CompleteRecords(self, covariates), covariates, fit_error, ph_error)

\* mutant of C13: the check of line 263 is gone
NotFitted_Unchecked(coxph) == FALSE

\* line 263
NotFitted(coxph) == coxph = NoFit

\* predict_survival, lines 248-287; covariate_values is the set of the names
\* the caller gives a value for, and the fitted model cannot predict from a
\* row that lacks one of its covariates
predict_survival(self, covariate_values) ==
    IF NotFitted(self.coxph)
    THEN [self |-> self, raised |-> "ValueError", value |-> NoStat]
    ELSE IF self.coxph.fitted /\ ~(Range(self.coxph.covariates) \subseteq covariate_values)
    THEN [self |-> self, raised |-> "KeyError", value |-> NoStat]
    ELSE [self |-> self, raised |-> "",
          value |-> [survival_probabilities |->
                        [stat |-> "predict_survival_function", model |-> self.coxph],
                     covariate_values |-> covariate_values]]

\* self.data[self.event_col].sum()
RECURSIVE SumColumn(_, _)
SumColumn(rows, col) ==
    IF rows = <<>> THEN 0
    ELSE SumColumn(SubSeq(rows, 1, Len(rows) - 1), col) + rows[Len(rows)][col]

\* lines 300-301: a / n if n > 0 else 0, as a fraction
RateOrZero(a, n) == IF n > 0 THEN <<a, n>> ELSE <<0, 1>>

\* Series.median() of a non-empty column of durations: the middle value, or
\* the mean of the two middle values
DurationMedian(durations) ==
    IF Len(durations) % 2 = 1
    THEN Ratio(SortInts(durations)[(Len(durations) + 1) \div 2], 1)
    ELSE Ratio(SortInts(durations)[Len(durations) \div 2]
                 + SortInts(durations)[(Len(durations) \div 2) + 1], 2)

\* lines 304-308: the median duration of the churned records, None when
\* there is none
MedianTimeToChurn(churned_data, duration_col) ==
    IF Len(churned_data) > 0
    THEN DurationMedian([i \in 1..Len(churned_data) |-> churned_data[i][duration_col]])
    ELSE NoStat

\* line 326: float(m) if m else None; None and 0.0 are both falsy
MedianTimeToChurnEntry(median_time_to_churn) ==
    IF median_time_to_churn = NoStat \/ median_time_to_churn = Ratio(0, 1)
    THEN NoStat
    ELSE median_time_to_churn

\* line 313
RetentionHorizons == {3, 6, 12, 24}

\* self.kmf.predict(months): the fitted survival function at the last time
\* of its index that is not after `months`
KaplanMeierPredict(kmf, months) ==
    kmf.survival_function_[
        CHOOSE t \in DOMAIN kmf.survival_function_ :
            /\ t <= months
            /\ \A u \in DOMAIN kmf.survival_function_ : u <= months => u <= t]

\* lines 311-318: no entry at all without a fitted overall curve; an entry
\* for every horizon with one, null when the prediction raises
\* (predict_error).  The keys "3_months", ... are written as 3, ...
RetentionAtTime(kmf, predict_error) ==
    IF kmf = NoFit THEN [months \in {} |-> Null]
    ELSE [months \in RetentionHorizons |->
             IF predict_error THEN Null
             ELSE [kind |-> "probability", p |-> KaplanMeierPredict(kmf, months)]]

\* lines 296-301 and 320-328
RetentionMetrics(n_total, n_churned, median_time_to_churn, retention_at_time) ==
    [n_total |-> n_total,
     n_churned |-> n_churned,
     n_active |-> n_total - n_churned,
     churn_rate |-> RateOrZero(n_churned, n_total),
     retention_rate |-> RateOrZero(n_total - n_churned, n_total),
     median_time_to_churn_months |-> MedianTimeToChurnEntry(median_time_to_churn),
     retention_at_time |-> retention_at_time]

\* calculate_retention_metrics, lines 289-328
calculate_retention_metrics(self, predict_error) ==
    [self |-> self, raised |-> "",
     value |-> RetentionMetrics(
                   Len(self.data.rows),
                   SumColumn(self.data.rows, self.event_col),
                   MedianTimeToChurn(
                       SelectSeq(self.data.rows, LAMBDA r : r[self.event_col] = 1),
                       self.duration_col),
                   RetentionAtTime(self.kmf, predict_error))]

(***************************************************************************)
(* SpecSurvival: a SurvivalAnalysisModel is constructed from a table of    *)
(* churn records and its methods are called in any order                   *)
(***************************************************************************)
MaxSurvivalGroupRows == 6

SurvivalGroupSizes == {0, 1, MinGroupRecords, MaxSurvivalGroupRows}

\* the records of one genre: the first `events` of them churned at month
\* `churn_month`, the others are censored at month 3; the first `missing`
\* of them have no current_price
SurvivalGroupShapes ==
    {sh \in [n : SurvivalGroupSizes, events : {0, 1, MaxSurvivalGroupRows},
             churn_month : {0, 2}, missing : {0, 1}] :
        /\ sh.n = 0 => (sh.events = 0 /\ sh.missing = 0)
        /\ sh.events = 0 => sh.churn_month = 0}

SurvivalGroupRows(genre_name, sh) ==
    [i \in 1..sh.n |->
        [genre_name |-> genre_name,
         time_to_churn_months |-> IF i <= sh.events THEN sh.churn_month ELSE 3,
         churned |-> IF i <= sh.events THEN 1 ELSE 0,
         current_price |-> IF i <= sh.missing THEN NaN ELSE 10]]

SurvivalFrames ==
    {DataFrame({"genre_name", "time_to_churn_months", "churned", "current_price"},
               SurvivalGroupRows("RPG", rpg) \o SurvivalGroupRows("Indie", indie)
                  \o SurvivalGroupRows("Action",
                                       [n |-> action, events |-> 0,
                                        churn_month |-> 0, missing |-> 0])) :
        rpg \in SurvivalGroupShapes,
        indie \in {sh \in SurvivalGroupShapes : sh.missing = 0},
        action \in {0, MinGroupRecords}}

InitSurvival ==
    /\ pc = "constructed"
    /\ args \in [data : SurvivalFrames]
    /\ survival_model = SurvivalAnalysisModel(args.data, "time_to_churn_months",
                                              "churned")
    /\ call = NoCall
    /\ locals = [cox_succeeded |-> FALSE]
    /\ df = DataFrame({}, <<>>)
    /\ ret = NoReturn
    /\ did_model = [constructed |-> FALSE]
    /\ did_data = DataFrame({}, <<>>)
    /\ elasticity_model = [constructed |-> FALSE]

KaplanMeierAnalysis ==
    /\ pc = "constructed"
    /\ \E groupby_col \in {"", "genre_name"}, lib_error \in BOOLEAN :
       \E r \in {kaplan_meier_analysis(survival_model, groupby_col, lib_error)} :
          /\ survival_model' = r.self
          /\ call' = [op |-> "kaplan_meier_analysis", groupby_col |-> groupby_col,
                      raised |-> r.raised, value |-> r.value]
    /\ UNCHANGED <<pc, df, args, ret, did_model, did_data, locals, elasticity_model>>

CoxProportionalHazards ==
    /\ pc = "constructed"
    /\ \E fit_error \in BOOLEAN, ph_error \in BOOLEAN :
       \E r \in {cox_proportional_hazards(survival_model, <<"current_price">>,
                                          fit_error, ph_error)} :
          /\ survival_model' = r.self
          /\ call' = [op |-> "cox_proportional_hazards",
                      raised |-> r.raised, value |-> r.value]
          /\ locals' = [cox_succeeded |-> locals.cox_succeeded \/ r.raised = ""]
    /\ UNCHANGED <<pc, df, args, ret, did_model, did_data, elasticity_model>>

PredictSurvival ==
    /\ pc = "constructed"
    /\ \E covariate_values \in {{"current_price"}, {}} :
       \E r \in {predict_survival(survival_model, covariate_values)} :
          /\ survival_model' = r.self
          /\ call' = [op |-> "predict_survival",
                      raised |-> r.raised, value |-> r.value]
    /\ UNCHANGED <<pc, df, args, ret, did_model, did_data, locals, elasticity_model>>

CalculateRetentionMetrics ==
    /\ pc = "constructed"
    /\ \E predict_error \in BOOLEAN :
       \E r \in {calculate_retention_metrics(survival_model, predict_error)} :
          /\ survival_model' = r.self
          /\ call' = [op |-> "calculate_retention_metrics",
                      raised |-> r.raised, value |-> r.value]
    /\ UNCHANGED <<pc, df, args, ret, did_model, did_data, locals, elasticity_model>>

NextSurvival ==
    \/ KaplanMeierAnalysis
    \/ CoxProportionalHazards
    \/ PredictSurvival
    \/ CalculateRetentionMetrics

SpecSurvival == InitSurvival /\ [][NextSurvival]_vars

\* the records of the model that have a duration, an event flag and a price
CoxRecords == CompleteRecords(survival_model, <<"current_price">>)

RemainingGroups ==
    {g \in {"RPG", "Indie", "Action"} :
        Cardinality({i \in 1..Len(survival_model.data.rows) :
                        survival_model.data.rows[i].genre_name = g}) >= 5}

\* the test a log-rank entry reports, "none" for an absent or failed one
TestOf(entry) == IF "test" \in DOMAIN entry THEN entry.test ELSE "none"

ComparedBy(entry) == IF "compared" \in DOMAIN entry THEN entry.compared ELSE {}

\* C14: in a grouped Kaplan-Meier analysis the groups of fewer than 5 records
\* get no curve; a log-rank test is reported exactly when at least 2 groups
\* remain; it is the pairwise test for 2 remaining groups, the multivariate
\* one for 3 or more, and it compares the remaining groups only
C14_LogRankOnRemainingGroups ==
    (call.op = "kaplan_meier_analysis" /\ call.raised = ""
        /\ call.groupby_col = "genre_name") =>
        /\ DOMAIN call.value.stratified.groups = RemainingGroups
        /\ (call.value.logrank_test # Absent) <=> Cardinality(RemainingGroups) >= 2
        /\ TestOf(call.value.logrank_test) = "logrank_test" =>
              Cardinality(RemainingGroups) = 2
        /\ TestOf(call.value.logrank_test) = "multivariate_logrank_test" =>
              Cardinality(RemainingGroups) >= 3
        /\ TestOf(call.value.logrank_test) # "none" =>
              ComparedBy(call.value.logrank_test) = RemainingGroups

\* the median the result is to report for the records `rows`: the first time
\* at which their survival function is at or below 0.5, null when there is none
ReportedMedian(rows) ==
    IF MedianSurvivalTime(rows, "time_to_churn_months", "churned") = Inf THEN Null
    ELSE MedianSurvivalTime(rows, "time_to_churn_months", "churned")

RecordsOfGenre(g) == GroupData(survival_model.data.rows, "genre_name", g)

\* C15: kaplan_meier_analysis returns normally on records whose survival
\* function never reaches 0.5, reporting a null median_survival_time overall
\* and per group, and reports the first time at or below 0.5 otherwise, a
\* first time of 0 included
C15_MedianNullOrFirstCrossing ==
    /\ (call.op = "kaplan_meier_analysis" /\ call.groupby_col = ""
           /\ Len(survival_model.data.rows) > 0) =>
          /\ call.raised = ""
          /\ call.value.overall.median_survival_time =
                ReportedMedian(survival_model.data.rows)
    /\ (call.op = "kaplan_meier_analysis" /\ call.groupby_col = "genre_name"
           /\ call.raised = "") =>
          \A g \in DOMAIN call.value.stratified.groups :
             call.value.stratified.groups[g].median_survival_time =
                ReportedMedian(RecordsOfGenre(g))

\* a / b as a fraction lies in [0, 1]
IsProportion(rate) == rate[2] > 0 /\ 0 <= rate[1] /\ rate[1] <= rate[2]

\* C16: for every table a model can be built from, the empty one included,
\* n_churned + n_active = n_total, churn_rate = n_churned / n_total,
\* retention_rate = 1 - churn_rate, and both rates lie in [0, 1]
C16_RetentionRatesComplementary ==
    call.op = "calculate_retention_metrics" =>
        /\ call.raised = ""
        /\ call.value.n_total = Len(survival_model.data.rows)
        /\ call.value.n_churned + call.value.n_active = call.value.n_total
        /\ call.value.churn_rate[1] * call.value.n_total =
              call.value.n_churned * call.value.churn_rate[2]
        /\ call.value.retention_rate[1] * call.value.churn_rate[2] =
              (call.value.churn_rate[2] - call.value.churn_rate[1])
                 * call.value.retention_rate[2]
        /\ IsProportion(call.value.churn_rate)
        /\ IsProportion(call.value.retention_rate)

(***************************************************************************)
(* PriceElasticityModel, elasticity.py.  An elasticity is kept as the      *)
(* exact fraction [num, den] in lowest terms with den > 0; NoStat stands   *)
(* for None.                                                               *)
(***************************************************************************)
MinArcRecords == 2

MinArcGroupRecords == 5

MinLogLogRecords == 10

MinLogLogGroupRecords == 10

\* np.mean of a non-empty list
RatioMeanOf(total, n) == Ratio(total.num, total.den * n)

\* __init__, lines 24-48: the rows with a positive price and quantity remain
PriceElasticityModel(data, price_col, quantity_col) ==
    [data |-> DataFrame(data.columns,
                        SelectSeq(data.rows,
                                  LAMBDA r : r[price_col] > 0 /\ r[quantity_col] > 0)),
     price_col |-> price_col,
     quantity_col |-> quantity_col,
     elasticity |-> NoStat,
     model_result |-> NoFit]

\* lines 145 and 264: abs(elasticity) > 1.0
Elastic(elasticity) == Abs(elasticity.num) > elasticity.den

\* lines 287-295
Category(elasticity) ==
    IF Abs(elasticity.num) > elasticity.den THEN "Elastic"
    ELSE IF Abs(elasticity.num) < elasticity.den THEN "Inelastic"
    ELSE "Unit elastic"

\* mutant of C20: a zero elasticity is called inverse
Direction_ZeroInverse(elasticity) ==
    IF elasticity.num <= 0 THEN "inverse" ELSE "direct"

\* line 296
Direction(elasticity) == IF elasticity.num < 0 THEN "inverse" ELSE "direct"

\* _interpret_elasticity, lines 271-298: the category and the direction the
\* returned string is made of
interpret_elasticity(elasticity) ==
    IF elasticity = NoStat THEN [category |-> "Unknown", direction |-> ""]
    ELSE [category |-> Category(elasticity), direction |-> Direction(elasticity)]

PriceBefore(a, b, price_col) == a[price_col] < b[price_col]

RECURSIVE InsertByPrice(_, _, _)
InsertByPrice(sorted, row, price_col) ==
    IF sorted = <<>> THEN <<row>>
    ELSE IF PriceBefore(row, sorted[Len(sorted)], price_col)
         THEN Append(InsertByPrice(SubSeq(sorted, 1, Len(sorted) - 1), row, price_col),
                     sorted[Len(sorted)])
         ELSE Append(sorted, row)

\* line 107: data.sort_values(price_col), rows of equal price staying in order
RECURSIVE SortByPrice(_, _)
SortByPrice(rows, price_col) ==
    IF rows = <<>> THEN <<>>
    ELSE InsertByPrice(SortByPrice(SubSeq(rows, 1, Len(rows) - 1), price_col),
                       rows[Len(rows)], price_col)

\* line 127, with the averages doubled
ValidPriceChange(p1, p2, q1, q2) == p1 + p2 > 0 /\ q1 + q2 > 0 /\ p2 - p1 # 0

\* line 128: (delta_q / q_avg) / (delta_p / p_avg)
ArcElasticity(p1, p2, q1, q2) == Ratio((q2 - q1) * (p1 + p2), (q1 + q2) * (p2 - p1))

\* the loop of lines 114-131 over the first n rows
RECURSIVE ArcElasticities(_, _, _, _)
ArcElasticities(sorted, n, price_col, quantity_col) ==
    IF n < 2 THEN <<>>
    ELSE IF ValidPriceChange(sorted[n - 1][price_col], sorted[n][price_col],
                             sorted[n - 1][quantity_col], sorted[n][quantity_col])
    THEN Append(ArcElasticities(sorted, n - 1, price_col, quantity_col),
                ArcElasticity(sorted[n - 1][price_col], sorted[n][price_col],
                              sorted[n - 1][quantity_col], sorted[n][quantity_col]))
    ELSE ArcElasticities(sorted, n - 1, price_col, quantity_col)

\* lines 140-147
ArcSummary(avg_elasticity, n_observations) ==
    [elasticity |-> avg_elasticity,
     n_observations |-> n_observations,
     elastic |-> Elastic(avg_elasticity),
     interpretation |-> interpret_elasticity(avg_elasticity)]

\* lines 133-147
ArcReport(elasticities) ==
    IF Len(elasticities) = 0
    THEN [elasticity |-> NoStat, error |-> "No valid price changes"]
    ELSE ArcSummary(RatioMeanOf(RatioSum(elasticities), Len(elasticities)),
                    Len(elasticities))

\* _calculate_arc_elasticity_single, lines 92-147
calculate_arc_elasticity_single(self, rows) ==
    IF Len(rows) < MinArcRecords
    THEN [elasticity |-> NoStat, error |-> "Insufficient data"]
    ELSE ArcReport(ArcElasticities(SortByPrice(rows, self.price_col), Len(rows),
                                   self.price_col, self.quantity_col))

\* lines 74-80: the groups that are not skipped
ArcGroups(self, group_by) ==
    {g \in Range(Unique(self.data.rows, group_by)) :
        ~(Len(GroupData(self.data.rows, group_by, g)) < MinArcGroupRecords)}

\* calculate_arc_elasticity, lines 50-90; group_by "" stands for None
calculate_arc_elasticity(self, group_by) ==
    [self |-> self,
     raised |-> "",
     value |->
        IF group_by = ""
        THEN [overall |-> calculate_arc_elasticity_single(self, self.data.rows)]
        ELSE [by_group |->
                [groupby_column |-> group_by,
                 elasticities |->
                    [g \in ArcGroups(self, group_by) |->
                        calculate_arc_elasticity_single(
                            self, GroupData(self.data.rows, group_by, g))]]]]

MaxLog == 2

\* np.log, in units of ln 2: the estimate is a ratio of logarithms and does
\* not depend on the unit; the logarithm of a value that is not positive is
\* not finite
Log(v) == IF v <= 0 THEN NaN ELSE CHOOSE k \in 0..MaxLog : 2 ^ k = v

\* lines 212-214, with the products the normal equations sum
LogRows(rows, price_col, quantity_col) ==
    [i \in 1..Len(rows) |->
        [log_price |-> Log(rows[i][price_col]),
         log_quantity |-> Log(rows[i][quantity_col]),
         xy |-> Log(rows[i][price_col]) * Log(rows[i][quantity_col]),
         xx |-> Log(rows[i][price_col]) * Log(rows[i][price_col])]]

\* lines 217-219: the rows with a finite log_price and log_quantity
FiniteLogRows(logs) ==
    SelectSeq(logs, LAMBDA r : r.log_price # NaN /\ r.log_quantity # NaN)

\* line 221
InsufficientLogLogData(logs) == Len(logs) < MinLogLogRecords

\* lines 225-237
LogLogXCols(columns, include_controls) ==
    <<"log_price">>
       \o (IF include_controls /\ "is_discount_active" \in columns
           THEN <<"is_discount_active">> ELSE <<>>)
       \o (IF include_controls /\ "date" \in columns
           THEN <<"time_trend">> ELSE <<>>)

\* lines 239-251: the coefficient of log_price of OLS(y, add_constant(X)) for
\* X = [log_price].  add_constant leaves X alone when log_price is a non-zero
\* constant, so the fit is then through the origin; a log_price column of
\* zeros gets the coefficient 0 from the pseudo-inverse
OLSLogPriceCoefficient(n, sx, sy, sxy, sxx) ==
    IF n * sxx - sx * sx # 0 THEN Ratio(n * sxy - sx * sy, n * sxx - sx * sx)
    ELSE IF sx # 0 THEN Ratio(sxy, sxx)
    ELSE Ratio(0, 1)

\* lines 255-265
LogLogSummary(elasticity, n_obs) ==
    [elasticity |-> elasticity,
     n_obs |-> n_obs,
     elastic |-> Elastic(elasticity),
     interpretation |-> interpret_elasticity(elasticity)]

\* lines 221-269 on the finite rows; fit_error is the regression raising
LogLogOn(self, logs, x_cols, fit_error) ==
    IF InsufficientLogLogData(logs)
    THEN [self |-> self,
          value |-> [elasticity |-> NoStat, error |-> "Insufficient data"]]
    ELSE IF fit_error
    THEN [self |-> self, value |-> [elasticity |-> NoStat, error |-> "Exception"]]
    ELSE [self |-> [self EXCEPT !.model_result =
                      [fitted |-> TRUE, exog |-> x_cols, n_obs |-> Len(logs)]],
          value |-> LogLogSummary(
                       OLSLogPriceCoefficient(Len(logs),
                                              SumColumn(logs, "log_price"),
                                              SumColumn(logs, "log_quantity"),
                                              SumColumn(logs, "xy"),
                                              SumColumn(logs, "xx")),
                       Len(logs))]

\* _estimate_log_log_single, lines 196-269; the tables of this model have
\* neither an is_discount_active nor a date column
estimate_log_log_single(self, rows, include_controls, fit_error) ==
    LogLogOn(self,
             FiniteLogRows(LogRows(rows, self.price_col, self.quantity_col)),
             LogLogXCols(self.data.columns, include_controls), fit_error)

\* lines 172-174
LogLogOverall(single) ==
    [self |-> [single.self EXCEPT !.elasticity = single.value.elasticity],
     raised |-> "",
     value |-> [overall |-> single.value]]

\* one iteration of the loop of lines 180-187; acc is [self, elasticities]
LogLogGroupStep(acc, rows, group, include_controls, fit_error) ==
    IF Len(rows) < MinLogLogGroupRecords THEN acc
    ELSE [self |-> estimate_log_log_single(acc.self, rows, include_controls,
                                           fit_error).self,
          elasticities |->
             acc.elasticities @@
                (group :> estimate_log_log_single(acc.self, rows, include_controls,
                                                  fit_error).value)]

RECURSIVE LogLogGroups(_, _, _, _, _, _)
LogLogGroups(self, group_by, groups, n, include_controls, fit_error) ==
    IF n = 0 THEN [self |-> self, elasticities |-> <<>>]
    ELSE LogLogGroupStep(
             LogLogGroups(self, group_by, groups, n - 1, include_controls, fit_error),
             GroupData(self.data.rows, group_by, groups[n]), groups[n],
             include_controls, fit_error)

\* lines 176-192
LogLogByGroup(grouped, group_by) ==
    [self |-> grouped.self,
     raised |-> "",
     value |-> [by_group |-> [groupby_column |-> group_by,
                              elasticities |-> grouped.elasticities]]]

\* calculate_log_log_elasticity, lines 149-194; group_by "" stands for None
calculate_log_log_elasticity(self, include_controls, group_by, fit_error) ==
    IF group_by = ""
    THEN LogLogOverall(estimate_log_log_single(self, self.data.rows,
                                               include_controls, fit_error))
    ELSE LogLogByGroup(
             LogLogGroups(self, group_by, Unique(self.data.rows, group_by),
                          Len(Unique(self.data.rows, group_by)),
                          include_controls, fit_error),
             group_by)

\* mutant of C19: an elasticity of magnitude exactly 1 counts as elastic
RecommendedChange_UnitElastic(elasticity) ==
    IF Abs(elasticity.num) >= elasticity.den
    THEN [pct |-> 0 - 10, direction |-> "decrease"]
    ELSE [pct |-> 10, direction |-> "increase"]

\* lines 321-328
RecommendedChange(elasticity) ==
    IF Abs(elasticity.num) > elasticity.den
    THEN [pct |-> 0 - 10, direction |-> "decrease"]
    ELSE [pct |-> 10, direction |-> "increase"]

\* lines 330-351
Recommendation(elasticity, current_price, change) ==
    [current_price |-> Ratio(current_price, 1),
     optimal_price |-> Ratio(current_price * (100 + change.pct), 100),
     price_change_pct |-> change.pct,
     direction |-> change.direction,
     expected_quantity_change_pct |->
        Ratio(elasticity.num * change.pct, elasticity.den),
     elasticity |-> elasticity]

\* line 315
NoElasticity(elasticity) == elasticity = NoStat

\* recommend_optimal_price, lines 300-351
recommend_optimal_price(self, current_price, cost_per_player) ==
    [self |-> self,
     raised |-> "",
     value |-> IF NoElasticity(self.elasticity)
               THEN [error |-> "Elasticity must be calculated first"]
               ELSE Recommendation(self.elasticity, current_price,
                                   RecommendedChange(self.elasticity))]

(***************************************************************************)
(* SpecElasticity: a PriceElasticityModel is constructed from a table of   *)
(* price and player observations and its methods are called in any order   *)
(***************************************************************************)
MaxClusterRows == 10

\* prices and player counts whose logarithm is a whole number of units
LogValues == {2 ^ k : k \in 0..MaxLog}

\* `n` observations of one genre at the same price with the same players
ClusterShapes(sizes, genres) ==
    [n : sizes, price : LogValues, players : LogValues, genre_name : genres]

ClusterRows(sh) ==
    [i \in 1..sh.n |->
        [genre_name |-> sh.genre_name, current_price |-> sh.price,
         avg_players |-> sh.players]]

\* a free game, which the constructor drops
FreeGameRow == [genre_name |-> "RPG", current_price |-> 0, avg_players |-> 1]

ElasticityFrames ==
    {DataFrame({"genre_name", "current_price", "avg_players"},
               <<FreeGameRow>> \o ClusterRows(first) \o ClusterRows(second)) :
        first \in ClusterShapes({0, MinArcGroupRecords - 1, MaxClusterRows}, {"RPG"}),
        second \in ClusterShapes({1, MinArcGroupRecords, MinArcGroupRecords + 1},
                                 {"RPG", "Indie"})}

InitElasticity ==
    /\ pc = "constructed"
    /\ args \in [data : ElasticityFrames]
    /\ elasticity_model = PriceElasticityModel(args.data, "current_price",
                                               "avg_players")
    /\ call = NoCall
    /\ locals = [overall_log_log |-> "none"]
    /\ df = DataFrame({}, <<>>)
    /\ ret = NoReturn
    /\ did_model = [constructed |-> FALSE]
    /\ did_data = DataFrame({}, <<>>)
    /\ survival_model = [constructed |-> FALSE]

CalculateArcElasticity ==
    /\ pc = "constructed"
    /\ \E group_by \in {"", "genre_name"} :
       \E r \in {calculate_arc_elasticity(elasticity_model, group_by)} :
          /\ elasticity_model' = r.self
          /\ call' = [op |-> "calculate_arc_elasticity", group_by |-> group_by,
                      raised |-> r.raised, value |-> r.value]
    /\ UNCHANGED <<pc, df, args, ret, did_model, did_data, locals, survival_model>>

\* locals.overall_log_log: what the latest ungrouped log-log call produced
CalculateLogLogElasticity ==
    /\ pc = "constructed"
    /\ \E include_controls \in BOOLEAN, group_by \in {"", "genre_name"},
          fit_error \in BOOLEAN :
       \E r \in {calculate_log_log_elasticity(elasticity_model, include_controls,
                                              group_by, fit_error)} :
          /\ elasticity_model' = r.self
          /\ call' = [op |-> "calculate_log_log_elasticity", group_by |-> group_by,
                      raised |-> r.raised, value |-> r.value]
          /\ locals' = [overall_log_log |->
                          IF group_by # "" THEN locals.overall_log_log
                          ELSE IF r.value.overall.elasticity = NoStat THEN "null"
                          ELSE "value"]
    /\ UNCHANGED <<pc, df, args, ret, did_model, did_data, survival_model>>

RecommendOptimalPrice ==
    /\ pc = "constructed"
    /\ \E current_price \in {10, 20}, cost_per_player \in {0, 5} :
       \E r \in {recommend_optimal_price(elasticity_model, current_price,
                                         cost_per_player)} :
          /\ elasticity_model' = r.self
          /\ call' = [op |-> "recommend_optimal_price",
                      current_price |-> current_price,
                      cost_per_player |-> cost_per_player,
                      raised |-> r.raised, value |-> r.value]
    /\ UNCHANGED <<pc, df, args, ret, did_model, did_data, locals, survival_model>>

NextElasticity ==
    \/ CalculateArcElasticity
    \/ CalculateLogLogElasticity
    \/ RecommendOptimalPrice

SpecElasticity == InitElasticity /\ [][NextElasticity]_vars

\* the rows left by the positive-value filter whose logarithms are finite
LogLogRecords ==
    SelectSeq(args.data.rows,
              LAMBDA r : r.current_price > 0 /\ r.avg_players > 0)

\* C17: an ungrouped calculate_log_log_elasticity on fewer than 10 remaining
\* rows raises the insufficient-data error and returns no result bundle
C17_LogLogRequiresTenRows ==
    (call.op = "calculate_log_log_elasticity" /\ call.group_by = ""
        /\ Len(LogLogRecords) < MinLogLogRecords) =>
        (call.raised # "" /\ call.value = NoStat)

\* C18: recommend_optimal_price raises the model-not-fitted error unless the
\* latest ungrouped log-log call on the model produced an elasticity, and
\* returns a recommendation only in that case
C18_RecommendRequiresElasticity ==
    call.op = "recommend_optimal_price" =>
        /\ locals.overall_log_log # "value" =>
              (call.raised # "" /\ call.value = NoStat)
        /\ call.raised = "" => locals.overall_log_log = "value"

\* e x (the signed 10% price change), in percent
TenPercentOf(e, sign) == Ratio(e.num * sign * 10, e.den)

\* C19: with a fitted elasticity e the recommendation is 'decrease' with
\* optimal_price = 0.9 x current_price if |e| > 1, and 'increase' with
\* optimal_price = 1.1 x current_price otherwise, |e| = 1 included;
\* expected_quantity_change_pct is e x the signed 10% change; the result is a
\* function of e and current_price alone, whatever cost_per_player is
C19_TenPercentRule ==
    (call.op = "recommend_optimal_price" /\ elasticity_model.elasticity # NoStat) =>
        /\ call.raised = ""
        /\ call.value.elasticity = elasticity_model.elasticity
        /\ call.value.current_price = Ratio(call.current_price, 1)
        /\ IF Abs(elasticity_model.elasticity.num) > elasticity_model.elasticity.den
           THEN /\ call.value.direction = "decrease"
                /\ call.value.optimal_price = Ratio(9 * call.current_price, 10)
                /\ call.value.expected_quantity_change_pct =
                      TenPercentOf(elasticity_model.elasticity, 0 - 1)
           ELSE /\ call.value.direction = "increase"
                /\ call.value.optimal_price = Ratio(11 * call.current_price, 10)
                /\ call.value.expected_quantity_change_pct =
                      TenPercentOf(elasticity_model.elasticity, 1)

\* an increase was recommended for an elasticity of exactly -1, with a cost
\* per player given
C19_Witness ==
    /\ call.op = "recommend_optimal_price"
    /\ elasticity_model.elasticity = Ratio(0 - 1, 1)
    /\ call.cost_per_player > 0
    /\ call.value.direction = "increase"
    /\ call.value.optimal_price = Ratio(11 * call.current_price, 10)

\* the results of the last call that carry an elasticity value
ReportedResults ==
    IF call.op \notin {"calculate_arc_elasticity", "calculate_log_log_elasticity"}
    THEN {}
    ELSE {r \in (IF call.group_by = "" THEN {call.value.overall}
                 ELSE {call.value.by_group.elasticities[g] :
                          g \in DOMAIN call.value.by_group.elasticities}) :
             r.elasticity # NoStat}

\* C20: in every arc or log-log result with elasticity e the interpretation
\* says 'Elastic' iff |e| > 1, 'Inelastic' iff |e| < 1, 'Unit elastic' iff
\* |e| = 1, 'inverse' iff e < 0 and 'direct' otherwise, and the elastic flag is
\* true exactly when the interpretation says 'Elastic'
C20_ClassificationConsistent ==
    \A r \in ReportedResults :
        /\ r.interpretation.category \in {"Elastic", "Inelastic", "Unit elastic"}
        /\ r.interpretation.category = "Elastic" <=>
              Abs(r.elasticity.num) > r.elasticity.den
        /\ r.interpretation.category = "Inelastic" <=>
              Abs(r.elasticity.num) < r.elasticity.den
        /\ r.interpretation.category = "Unit elastic" <=>
              Abs(r.elasticity.num) = r.elasticity.den
        /\ r.interpretation.direction \in {"inverse", "direct"}
        /\ r.interpretation.direction = "inverse" <=> r.elasticity.num < 0
        /\ r.elastic <=> r.interpretation.category = "Elastic"

\* a result with elasticity 0 was classified as inelastic and direct
C20_Witness ==
    \E r \in ReportedResults :
        /\ r.elasticity = Ratio(0, 1)
        /\ r.interpretation = [category |-> "Inelastic", direction |-> "direct"]
        /\ ~r.elastic

(***************************************************************************)
(* calculate_elasticity_heatmap, elasticity.py lines 353-430               *)
(***************************************************************************)
\* lines 398-401: the rows of one (row-group, col-group) cross-cell
CrossCell(rows, row_groupby, col_groupby, row_group, col_group) ==
    SelectSeq(rows, LAMBDA r : r[row_groupby] = row_group /\ r[col_groupby] = col_group)

\* lines 406-407 on the rows of one cross-cell
CellElasticity(group_rows, columns, price_col, quantity_col) ==
    calculate_arc_elasticity(
        PriceElasticityModel(DataFrame(columns, group_rows), price_col, quantity_col),
        "").value.overall.elasticity

\* line 403
CellSkipped(group_rows) == Len(group_rows) < MinArcGroupRecords

\* lines 396-414: the (row_group, col_group) pairs appended to heatmap_data
HeatmapData(data, price_col, quantity_col, row_groupby, col_groupby) ==
    {cell \in Range(Unique(data.rows, row_groupby))
                 \X Range(Unique(data.rows, col_groupby)) :
        /\ ~CellSkipped(CrossCell(data.rows, row_groupby, col_groupby,
                                  cell[1], cell[2]))
        /\ CellElasticity(CrossCell(data.rows, row_groupby, col_groupby,
                                    cell[1], cell[2]),
                          data.columns, price_col, quantity_col) # NoStat}

\* lines 416-427: df.pivot(index, columns, values), pd.DataFrame() when no
\* cell was appended; a cell of the pivot without an entry is NaN
Pivot(cells, data, price_col, quantity_col, row_groupby, col_groupby) ==
    [index |-> {cell[1] : cell \in cells},
     columns |-> {cell[2] : cell \in cells},
     values |->
        [cell \in {c[1] : c \in cells} \X {c[2] : c \in cells} |->
            IF cell \in cells
            THEN CellElasticity(CrossCell(data.rows, row_groupby, col_groupby,
                                          cell[1], cell[2]),
                                data.columns, price_col, quantity_col)
            ELSE NoStat]]

\* lines 373-388: one row per group that calculate_arc_elasticity kept
SingleDimension(elasticities, row_groupby) ==
    [index |-> DOMAIN elasticities,
     columns |-> IF DOMAIN elasticities = {} THEN {} ELSE {row_groupby, "elasticity"},
     values |-> [g \in DOMAIN elasticities |-> elasticities[g].elasticity]]

\* the whole function; col_groupby "" stands for None
calculate_elasticity_heatmap(data, price_col, quantity_col, row_groupby, col_groupby) ==
    IF col_groupby = ""
    THEN SingleDimension(
             calculate_arc_elasticity(
                 PriceElasticityModel(data, price_col, quantity_col),
                 row_groupby).value.by_group.elasticities,
             row_groupby)
    ELSE Pivot(HeatmapData(data, price_col, quantity_col, row_groupby, col_groupby),
               data, price_col, quantity_col, row_groupby, col_groupby)

(***************************************************************************)
(* SpecHeatmap: calculate_elasticity_heatmap on tables of two genres and   *)
(* two price tiers                                                         *)
(***************************************************************************)
\* the observations of one cross-cell: prices that vary, one flat price, or
\* free games only
HeatmapCellShapes ==
    [n : {0, MinArcGroupRecords - 1, MinArcGroupRecords},
     prices : {"varying", "flat", "free"}]

HeatmapCellRows(genre_name, price_tier, sh) ==
    [i \in 1..sh.n |->
        [genre_name |-> genre_name,
         price_tier |-> price_tier,
         current_price |-> IF sh.prices = "free" THEN 0
                           ELSE IF sh.prices = "flat" THEN 2
                           ELSE 1 + (i % 2),
         avg_players |-> IF sh.prices = "varying" THEN 4 - 2 * (i % 2) ELSE 2]]

HeatmapFrames ==
    {DataFrame({"genre_name", "price_tier", "current_price", "avg_players"},
               HeatmapCellRows("RPG", "Low", a) \o HeatmapCellRows("RPG", "High", b)
                  \o HeatmapCellRows("Action", "Low", c)
                  \o HeatmapCellRows("Action", "High", d)) :
        a \in HeatmapCellShapes, b \in HeatmapCellShapes,
        c \in HeatmapCellShapes,
        d \in {sh \in HeatmapCellShapes : sh.prices # "free"}}

InitHeatmap ==
    /\ pc = "ready"
    /\ df \in HeatmapFrames
    /\ args \in [row_groupby : {"genre_name"}, col_groupby : {"", "price_tier"}]
    /\ ret = NoReturn
    /\ NoDiDModel
    /\ NoOtherModels

CalculateElasticityHeatmap ==
    /\ pc = "ready"
    /\ \E r \in {calculate_elasticity_heatmap(df, "current_price", "avg_players",
                                              args.row_groupby, args.col_groupby)} :
          ret' = [raised |-> FALSE, index |-> r.index, columns |-> r.columns,
                  values |-> r.values]
    /\ pc' = "done"
    /\ UNCHANGED <<df, args>>
    /\ UNCHANGED did_vars
    /\ UNCHANGED other_models

NextHeatmap == CalculateElasticityHeatmap

SpecHeatmap == InitHeatmap /\ [][NextHeatmap]_vars

\* the rows of the caller's table in one cross-cell
RowsInCell(row_group, col_group) ==
    Cardinality({i \in 1..Len(df.rows) :
                    df.rows[i].genre_name = row_group
                       /\ df.rows[i].price_tier = col_group})

DistinctRowGroups == {df.rows[i].genre_name : i \in 1..Len(df.rows)}

DistinctColGroups == {df.rows[i].price_tier : i \in 1..Len(df.rows)}

\* C21: with two grouping dimensions, when every cross-cell has at least 5
\* rows the row index of the heatmap is the set of distinct row-group values
\* and its columns the set of distinct col-group values; in every case a cell
\* is populated only if its cross-cell has at least 5 rows
C21_HeatmapIndexAndCells ==
    (pc = "done" /\ args.col_groupby = "price_tier") =>
        /\ (\A g \in DistinctRowGroups, t \in DistinctColGroups :
               RowsInCell(g, t) >= 5) =>
              (ret.index = DistinctRowGroups /\ ret.columns = DistinctColGroups)
        /\ \A cell \in DOMAIN ret.values :
              ret.values[cell] # NoStat => RowsInCell(cell[1], cell[2]) >= 5

(***************************************************************************)
(* Table objects.  A name of the code refers to a table object; `caller`   *)
(* is the content of the table the caller handed over, `work` the content  *)
(* of the object the name refers to, and `alias` tells whether the two are *)
(* one object, so that a write through the name is a write to the caller's *)
(* table.                                                                  *)
(***************************************************************************)
\* a parameter: the name refers to the caller's object
Bind(frame) == [caller |-> frame, work |-> frame, alias |-> TRUE]

\* df[col] = values, df[col] = df[col].astype(...): the object the name refers
\* to now holds `frame`
WriteInPlace(obj, frame) ==
    [caller |-> IF obj.alias THEN frame ELSE obj.caller,
     work |-> frame,
     alias |-> obj.alias]

\* mutant of C22: the operation works on the object it was given
NewObject_Shared(obj, frame) == WriteInPlace(obj, frame)

\* df.copy(), df.sort_values(...), df[mask], pd.concat(...): the result is a
\* new object holding `frame`
NewObject(obj, frame) == [caller |-> obj.caller, work |-> frame, alias |-> FALSE]

\* utils.py lines 267-279
prepare_panel_data_on(obj) ==
    WriteInPlace(NewObject(NewObject(obj, obj.work), SortValues(obj.work)),
                 prepare_panel_data(obj.work))

\* utils.py line 135; the loop of lines 145-173 only reads
identify_discount_events_on(obj) == NewObject(obj, SortValues(obj.work))

\* position of row i among the rows of its game
PositionInGame(rows, i) ==
    Cardinality({j \in 1..i : rows[j].game_id = rows[i].game_id})

\* utils.py lines 198-200: the rolling_avg column
WithRollingAvg(frame, lookback_months) ==
    DataFrame(frame.columns \cup {"rolling_avg"},
              [i \in 1..Len(frame.rows) |->
                 [k \in frame.columns \cup {"rolling_avg"} |->
                    IF k = "rolling_avg"
                    THEN RollingMean(GameRows(frame.rows, frame.rows[i].game_id),
                                     PositionInGame(frame.rows, i), lookback_months)
                    ELSE frame.rows[i][k]]])

\* utils.py lines 197-205; game_df of line 205 is a copy that is only read
calculate_churn_events_on(obj, lookback_months) ==
    WriteInPlace(NewObject(obj, SortValues(obj.work)),
                 WithRollingAvg(SortValues(obj.work), lookback_months))

\* utils.py lines 111-112 with treatment_condition = (game_id == 1)
WithIsTreatment(frame) ==
    DataFrame(frame.columns \cup {"is_treatment"},
              [i \in 1..Len(frame.rows) |->
                 [k \in frame.columns \cup {"is_treatment"} |->
                    IF k = "is_treatment" THEN frame.rows[i].game_id = 1
                    ELSE frame.rows[i][k]]])

\* utils.py lines 111-115
create_cohorts_on(obj) == WriteInPlace(NewObject(obj, obj.work), WithIsTreatment(obj.work))

\* did_model.py lines 51-52: self.treatment_df or self.control_df
did_panel_on(obj) == prepare_panel_data_on(obj)

\* did_model.py lines 69-70: self.treatment_df["treatment"] = 1,
\* self.control_df["treatment"] = 0
did_tag_on(obj, treatment) ==
    WriteInPlace(obj, AssignColumn(obj.work, "treatment", treatment))

\* did_model.py lines 208-213 and 216: the placebo model is built from
\* self.treatment_df.copy() / self.control_df.copy() and estimated
did_placebo_on(obj, treatment) ==
    did_tag_on(did_panel_on(NewObject(obj, obj.work)), treatment)

\* survival.py lines 40-46; the values written by astype are those read
survival_data_on(obj) == WriteInPlace(NewObject(obj, obj.work), obj.work)

\* survival.py lines 201-202: model_data is a copy
cox_model_data_on(obj, columns) ==
    NewObject(obj, DataFrame(columns,
                             [i \in 1..Len(obj.work.rows) |->
                                 Restrict(obj.work.rows[i], columns)]))

\* elasticity.py lines 38-45
elasticity_data_on(obj) ==
    NewObject(NewObject(obj, obj.work),
              PriceElasticityModel(obj.work, "current_price", "avg_players").data)

\* elasticity.py lines 212-214
WithLogs(frame) ==
    DataFrame(frame.columns \cup {"log_price", "log_quantity"},
              [i \in 1..Len(frame.rows) |->
                 [k \in frame.columns \cup {"log_price", "log_quantity"} |->
                    IF k = "log_price" THEN Log(frame.rows[i].current_price)
                    ELSE IF k = "log_quantity" THEN Log(frame.rows[i].avg_players)
                    ELSE frame.rows[i][k]]])

\* elasticity.py lines 212-219 on self.data or on a group of it
estimate_log_log_on(obj) == WriteInPlace(NewObject(obj, obj.work), WithLogs(obj.work))

(***************************************************************************)
(* SpecFrames: the caller hands the tables df and args.control_df to the   *)
(* operations of the core, in any order; locals holds the table objects    *)
(* the constructed models keep                                             *)
(***************************************************************************)
MaxFrameRows == 3

FrameKeys == {1, 2} \X {Date(2024, 1, 1), Date(2024, 2, 1)}

FrameColumns ==
    {"game_id", "date", "avg_players", "current_price", "time_to_churn_months",
     "churned"}

\* the free game 2 has price 0
FrameTable(ks, descending) ==
    DataFrame(FrameColumns,
              [i \in 1..Cardinality(ks) |->
                 [game_id |-> (IF descending THEN Reverse(KeysAscending(ks))
                               ELSE KeysAscending(ks))[i][1],
                  date |-> (IF descending THEN Reverse(KeysAscending(ks))
                            ELSE KeysAscending(ks))[i][2],
                  avg_players |-> 4,
                  current_price |-> IF (IF descending THEN Reverse(KeysAscending(ks))
                                        ELSE KeysAscending(ks))[i][1] = 1
                                    THEN 2 ELSE 0,
                  time_to_churn_months |-> 2,
                  churned |-> 1]])

FrameTables ==
    {FrameTable(ks, descending) :
        ks \in {k \in SUBSET FrameKeys : Cardinality(k) \in 1..MaxFrameRows},
        descending \in BOOLEAN}

NoObject == [bound |-> FALSE]

\* the object a model keeps, as seen next to the caller's table
Held(obj) == [bound |-> TRUE, work |-> obj.work, alias |-> obj.alias]

On(caller, held) == [caller |-> caller, work |-> held.work, alias |-> held.alias]

InitFrames ==
    /\ pc = "ready"
    /\ df \in FrameTables
    /\ \E control \in {FrameTable({<<2, Date(2024, 2, 1)>>, <<2, Date(2024, 1, 1)>>},
                                  descending) : descending \in BOOLEAN} :
          args = [control_df |-> control, original_df |-> df,
                  original_control |-> control]
    /\ locals = [treatment |-> NoObject, control |-> NoObject,
                 survival |-> NoObject, elasticity |-> NoObject]
    /\ call = [op |-> "none"]
    /\ ret = NoReturn
    /\ did_model = [constructed |-> FALSE]
    /\ did_data = DataFrame({}, <<>>)
    /\ NoOtherModels

FramesUnchanged == UNCHANGED <<pc, ret, did_model, did_data, survival_model, elasticity_model>>

FramesPreparePanelData ==
    /\ df' = prepare_panel_data_on(Bind(df)).caller
    /\ call' = [op |-> "prepare_panel_data"]
    /\ UNCHANGED <<args, locals>>
    /\ FramesUnchanged

FramesIdentifyDiscountEvents ==
    /\ df' = identify_discount_events_on(Bind(df)).caller
    /\ call' = [op |-> "identify_discount_events"]
    /\ UNCHANGED <<args, locals>>
    /\ FramesUnchanged

FramesCalculateChurnEvents ==
    /\ \E lookback_months \in {1, DefaultLookbackMonths} :
          df' = calculate_churn_events_on(Bind(df), lookback_months).caller
    /\ call' = [op |-> "calculate_churn_events"]
    /\ UNCHANGED <<args, locals>>
    /\ FramesUnchanged

FramesCreateCohorts ==
    /\ df' = create_cohorts_on(Bind(df)).caller
    /\ call' = [op |-> "create_cohorts"]
    /\ UNCHANGED <<args, locals>>
    /\ FramesUnchanged

\* DifferenceInDifferencesModel(df, args.control_df)
FramesConstructDiD ==
    /\ \E t \in {did_panel_on(Bind(df))}, c \in {did_panel_on(Bind(args.control_df))} :
          /\ df' = t.caller
          /\ args' = [args EXCEPT !.control_df = c.caller]
          /\ locals' = [locals EXCEPT !.treatment = Held(t), !.control = Held(c)]
    /\ call' = [op |-> "DifferenceInDifferencesModel"]
    /\ FramesUnchanged

\* estimate, parallel_trends_test or event_study: _prepare_did_data tags the
\* panels of the model; the combined table is a new object
FramesPrepareDiDData ==
    /\ locals.treatment.bound
    /\ \E t \in {did_tag_on(On(df, locals.treatment), 1)},
          c \in {did_tag_on(On(args.control_df, locals.control), 0)} :
          /\ df' = t.caller
          /\ args' = [args EXCEPT !.control_df = c.caller]
          /\ locals' = [locals EXCEPT !.treatment = Held(t), !.control = Held(c)]
    /\ call' = [op |-> "estimate"]
    /\ FramesUnchanged

FramesPlaceboTest ==
    /\ locals.treatment.bound
    /\ df' = did_placebo_on(On(df, locals.treatment), 1).caller
    /\ args' = [args EXCEPT !.control_df =
                   did_placebo_on(On(args.control_df, locals.control), 0).caller]
    /\ call' = [op |-> "placebo_test"]
    /\ UNCHANGED locals
    /\ FramesUnchanged

\* SurvivalAnalysisModel(df)
FramesConstructSurvival ==
    /\ \E d \in {survival_data_on(Bind(df))} :
          /\ df' = d.caller
          /\ locals' = [locals EXCEPT !.survival = Held(d)]
    /\ call' = [op |-> "SurvivalAnalysisModel"]
    /\ UNCHANGED args
    /\ FramesUnchanged

FramesCoxProportionalHazards ==
    /\ locals.survival.bound
    /\ df' = cox_model_data_on(On(df, locals.survival),
                               {"time_to_churn_months", "churned",
                                "current_price"}).caller
    /\ call' = [op |-> "cox_proportional_hazards"]
    /\ UNCHANGED <<args, locals>>
    /\ FramesUnchanged

\* PriceElasticityModel(df)
FramesConstructElasticity ==
    /\ \E d \in {elasticity_data_on(Bind(df))} :
          /\ df' = d.caller
          /\ locals' = [locals EXCEPT !.elasticity = Held(d)]
    /\ call' = [op |-> "PriceElasticityModel"]
    /\ UNCHANGED args
    /\ FramesUnchanged

FramesCalculateLogLogElasticity ==
    /\ locals.elasticity.bound
    /\ df' = estimate_log_log_on(On(df, locals.elasticity)).caller
    /\ call' = [op |-> "calculate_log_log_elasticity"]
    /\ UNCHANGED <<args, locals>>
    /\ FramesUnchanged

\* run_did_analysis: construction, estimate, placebo_test on its own model
FramesRunDiDAnalysis ==
    /\ df' = did_placebo_on(did_tag_on(did_panel_on(Bind(df)), 1), 1).caller
    /\ args' = [args EXCEPT !.control_df =
                   did_placebo_on(did_tag_on(did_panel_on(Bind(args.control_df)), 0),
                                  0).caller]
    /\ call' = [op |-> "run_did_analysis"]
    /\ UNCHANGED locals
    /\ FramesUnchanged

\* run_survival_analysis: calculate_churn_events, then the sort of line 361;
\* the model is built on the new table of churn records
FramesRunSurvivalAnalysis ==
    /\ df' = NewObject(Bind(calculate_churn_events_on(
                                Bind(df), DefaultLookbackMonths).caller),
                       df).caller
    /\ call' = [op |-> "run_survival_analysis"]
    /\ UNCHANGED <<args, locals>>
    /\ FramesUnchanged

\* run_elasticity_analysis: construction and the log-log estimate
FramesRunElasticityAnalysis ==
    /\ df' = estimate_log_log_on(elasticity_data_on(Bind(df))).caller
    /\ call' = [op |-> "run_elasticity_analysis"]
    /\ UNCHANGED <<args, locals>>
    /\ FramesUnchanged

NextFrames ==
    \/ FramesPreparePanelData
    \/ FramesIdentifyDiscountEvents
    \/ FramesCalculateChurnEvents
    \/ FramesCreateCohorts
    \/ FramesConstructDiD
    \/ FramesPrepareDiDData
    \/ FramesPlaceboTest
    \/ FramesConstructSurvival
    \/ FramesCoxProportionalHazards
    \/ FramesConstructElasticity
    \/ FramesCalculateLogLogElasticity
    \/ FramesRunDiDAnalysis
    \/ FramesRunSurvivalAnalysis
    \/ FramesRunElasticityAnalysis

SpecFrames == InitFrames /\ [][NextFrames]_vars

\* C22: after any sequence of core operations on the caller's tables, each
\* table has the rows, the row order and the columns it had when it was
\* handed over
C22_CallerTablesUntouched ==
    /\ df = args.original_df
    /\ args.control_df = args.original_control

\* a model tagged its own panel of an unsorted caller's table, which still
\* has neither the tag nor the sorted order
C22_Witness ==
    /\ call.op = "estimate"
    /\ locals.treatment.bound
    /\ "treatment" \in locals.treatment.work.columns
    /\ "treatment" \notin df.columns
    /\ SortValues(df) # df
    /\ locals.treatment.work.rows # <<>>

(***************************************************************************)
(* SpecRepeat: one estimator instance called again and again               *)
(***************************************************************************)
\* the panels of the repeated calls: both groups observed on the same
\* MaxGroupRows dates, with a price column; the control group never misses
\* an observation
RepeatInputs ==
    \E dates \in {d \in SUBSET DiDDates : Cardinality(d) = MaxGroupRows} :
    \E tcell \in [dates -> TreatmentCells] :
    \E treatment_date \in {None, Timestamp(Date(2024, 1, 8))} :
        args = [treatment_df |-> DiDFrame(1, dates, tcell, 1),
                control_df |->
                   DiDFrame(2, dates, [d \in dates |-> <<100, FALSE>>], 2),
                outcome_col |-> "avg_players",
                treatment_date |-> treatment_date]

\* ten RPG observations at one price and a second cluster of Indie ones
RepeatElasticityFrames ==
    {DataFrame({"genre_name", "current_price", "avg_players"},
               <<FreeGameRow>>
               \o ClusterRows([n |-> MaxClusterRows, price |-> 1, players |-> 2,
                               genre_name |-> "RPG"])
               \o ClusterRows(second)) :
        second \in ClusterShapes({1, MinArcGroupRecords + 1}, {"Indie"})}

\* locals.estimates: how many calls of the estimator have been made, up to
\* two; locals.between: the other operations called since the first one
NoHistory == [estimates |-> 0, between |-> {}]

AfterEstimator(history) ==
    [history EXCEPT !.estimates = IF @ = 0 THEN 1 ELSE 2]

AfterOther(history, op) ==
    IF history.estimates = 0 THEN history
    ELSE [history EXCEPT !.between = @ \cup {op}]

InitRepeatDiD ==
    /\ pc = "did_model"
    /\ RepeatInputs
    /\ did_model = DifferenceInDifferencesModel(args.treatment_df, args.control_df,
                                                args.outcome_col, args.treatment_date)
    /\ did_data = DataFrame({}, <<>>)
    /\ NoOtherModels

InitRepeatElasticity ==
    /\ pc = "elasticity_model"
    /\ args \in [data : RepeatElasticityFrames]
    /\ elasticity_model = PriceElasticityModel(args.data, "current_price",
                                               "avg_players")
    /\ did_model = [constructed |-> FALSE]
    /\ did_data = DataFrame({}, <<>>)
    /\ survival_model = [constructed |-> FALSE]

InitRepeat ==
    /\ InitRepeatDiD \/ InitRepeatElasticity
    /\ call = NoCall
    /\ locals = NoHistory
    /\ df = DataFrame({}, <<>>)
    /\ ret = NoReturn

RepeatEstimate ==
    /\ pc = "did_model"
    /\ \E include_covariates \in BOOLEAN, fit_error \in BOOLEAN :
       \E r \in {estimate(did_model, include_covariates, fit_error)} :
          /\ did_model' = r.self
          /\ did_data' = r.did_data
          /\ call' = [op |-> "estimate",
                      include_covariates |-> include_covariates,
                      fit_error |-> fit_error,
                      raised |-> r.raised, value |-> r.value]
    /\ locals' = AfterEstimator(locals)
    /\ UNCHANGED <<pc, df, args, ret>>
    /\ UNCHANGED other_models

\* placebo_test works on a model of its own and leaves this one as it was
RepeatPlaceboTest ==
    /\ pc = "did_model"
    /\ \E fake_treatment_date \in {Timestamp(Date(2024, 1, 8)),
                                   Timestamp(Date(2024, 2, 12))},
          fit_error \in BOOLEAN :
       \E r \in {placebo_test(did_model, fake_treatment_date, fit_error)} :
          call' = [op |-> "placebo_test",
                   fake_treatment_date |-> fake_treatment_date,
                   fit_error |-> fit_error,
                   raised |-> r.raised, value |-> r.value]
    /\ locals' = AfterOther(locals, "placebo_test")
    /\ UNCHANGED <<pc, df, args, ret, did_model, did_data>>
    /\ UNCHANGED other_models

RepeatEventStudy ==
    /\ pc = "did_model"
    /\ \E fit_error \in BOOLEAN :
       \E r \in {event_study(did_model, 3, 3, fit_error)} :
          /\ did_model' = r.self
          /\ did_data' = r.did_data
          /\ call' = [op |-> "event_study", fit_error |-> fit_error,
                      raised |-> r.raised, value |-> r.value]
    /\ locals' = AfterOther(locals, "event_study")
    /\ UNCHANGED <<pc, df, args, ret>>
    /\ UNCHANGED other_models

RepeatLogLogElasticity ==
    /\ pc = "elasticity_model"
    /\ \E include_controls \in BOOLEAN, group_by \in {"", "genre_name"},
          fit_error \in BOOLEAN :
       \E r \in {calculate_log_log_elasticity(elasticity_model, include_controls,
                                              group_by, fit_error)} :
          /\ elasticity_model' = r.self
          /\ call' = [op |-> "calculate_log_log_elasticity",
                      include_controls |-> include_controls,
                      group_by |-> group_by, fit_error |-> fit_error,
                      raised |-> r.raised, value |-> r.value]
    /\ locals' = AfterEstimator(locals)
    /\ UNCHANGED <<pc, df, args, ret, did_model, did_data, survival_model>>

RepeatArcElasticity ==
    /\ pc = "elasticity_model"
    /\ \E group_by \in {"", "genre_name"} :
       \E r \in {calculate_arc_elasticity(elasticity_model, group_by)} :
          /\ elasticity_model' = r.self
          /\ call' = [op |-> "calculate_arc_elasticity", group_by |-> group_by,
                      raised |-> r.raised, value |-> r.value]
    /\ locals' = AfterOther(locals, "calculate_arc_elasticity")
    /\ UNCHANGED <<pc, df, args, ret, did_model, did_data, survival_model>>

NextRepeat ==
    \/ RepeatEstimate
    \/ RepeatPlaceboTest
    \/ RepeatEventStudy
    \/ RepeatLogLogElasticity
    \/ RepeatArcElasticity

SpecRepeat == InitRepeat /\ [][NextRepeat]_vars

\* what a call on a model instance that was just built from the same input
\* raises and returns
FirstEstimate ==
    estimate(DifferenceInDifferencesModel(args.treatment_df, args.control_df,
                                          args.outcome_col, args.treatment_date),
             call.include_covariates, call.fit_error)

FirstLogLog ==
    calculate_log_log_elasticity(
        PriceElasticityModel(args.data, "current_price", "avg_players"),
        call.include_controls, call.group_by, call.fit_error)

\* C23: whatever was called on the instance before, an estimator call raises
\* and returns what the same call raises and returns on a second instance
\* that was just built from the same input: estimate after an auto-resolved
\* treatment date, a placebo test or an event study, and the log-log
\* elasticity after any earlier elasticity call
C23_RepeatedCallSameResult ==
    /\ call.op = "estimate" =>
          /\ call.raised = FirstEstimate.raised
          /\ call.value = FirstEstimate.value
    /\ call.op = "calculate_log_log_elasticity" =>
          /\ call.raised = FirstLogLog.raised
          /\ call.value = FirstLogLog.value

\* a second estimate on an instance that resolved its treatment date in an
\* earlier call and ran both diagnostics in between
C23_Witness ==
    /\ call.op = "estimate"
    /\ call.raised = ""
    /\ locals.estimates = 2
    /\ locals.between = {"placebo_test", "event_study"}
    /\ args.treatment_date = None
    /\ did_model.treatment_date # None

\* the main estimate of a model and the treatment date it works with
MainEstimate(self) ==
    [att |-> self.att, standard_error |-> self.standard_error,
     p_value |-> self.p_value, model_result |-> self.model_result,
     treatment_date |-> self.treatment_date]

\* what a placebo test of the model with this fake date reports: the
\* estimate, without covariates, of a separate model built on the panels
SeparatePlacebo ==
    PlaceboReport(
        estimate(DifferenceInDifferencesModel(
                     did_model.treatment_df, did_model.control_df,
                     did_model.outcome_col, call.fake_treatment_date),
                 FALSE, call.fit_error),
        call.fake_treatment_date)

\* C26: on a model with a successful estimate, a placebo_test or event_study
\* call, in whatever order and however often, leaves att, standard_error,
\* p_value, model_result and the resolved treatment_date as they were; a
\* placebo_test leaves the whole model as it was and reports the estimate,
\* with the fake date and without covariates, of a separate model built on
\* the panels
C26_DiagnosticsKeepEstimate ==
    /\ [](pc = "did_model" /\ did_model.model_result # NoFit
            /\ call.op = "placebo_test"
          => /\ call.raised = SeparatePlacebo.raised
             /\ call.value = SeparatePlacebo.value)
    /\ [][(/\ pc = "did_model"
            /\ did_model.model_result # NoFit
            /\ call'.op \in {"placebo_test", "event_study"})
           => /\ MainEstimate(did_model') = MainEstimate(did_model)
              /\ call'.op = "placebo_test" => did_model' = did_model]_vars

\* an event study that returned on a fitted model after a placebo test
C26_Witness ==
    /\ call.op = "event_study"
    /\ call.raised = ""
    /\ did_model.model_result # NoFit
    /\ did_model.att # NoStat
    /\ locals.between = {"placebo_test", "event_study"}

(***************************************************************************)
(* SpecTrends: validate_parallel_trends called on two period tables        *)
(***************************************************************************)
MaxPeriods == 4

\* the periods a group is observed in: the first k, or two and a late one
TrendPeriodLists ==
    {[i \in 1..k |-> i - 1] : k \in 1..MaxPeriods} \cup {<<0, 1, MaxPeriods + 1>>}

TrendShapes == {"rising", "slower", "falling", "flat", "bent", "gap"}

\* the outcome of a group in period t; NaN is a missing observation
TrendOutcome(shape, t) ==
    CASE shape = "rising" -> 100 + 100 * t
      [] shape = "slower" -> 100 + 95 * t
      [] shape = "falling" -> 50 * (MaxPeriods + 2) - 50 * t
      [] shape = "flat" -> 100
      [] shape = "bent" -> IF t = 1 THEN 300 ELSE 100
      [] shape = "gap" -> IF t = 1 THEN NaN ELSE 100 + 100 * t

TrendFrame(periods, shape) ==
    DataFrame({"time_period", "avg_players"},
              [i \in 1..Len(periods) |->
                  [time_period |-> periods[i],
                   avg_players |-> TrendOutcome(shape, periods[i])]])

TrendFrames == {TrendFrame(periods, shape) :
                   periods \in TrendPeriodLists, shape \in TrendShapes}

InitTrends ==
    /\ pc = "ready"
    /\ args \in [treatment_df : TrendFrames, control_df : TrendFrames,
                 outcome_col : {"avg_players"}, pre_treatment_periods : {2, 3}]
    /\ df = DataFrame({}, <<>>)
    /\ ret = NoReturn
    /\ NoDiDModel
    /\ NoOtherModels

ValidateParallelTrends ==
    /\ pc = "ready"
    /\ \E lib_error \in BOOLEAN :
       \E r \in {validate_parallel_trends(args.treatment_df, args.control_df,
                                          args.outcome_col,
                                          args.pre_treatment_periods, lib_error)} :
          call' = [op |-> "validate_parallel_trends", raised |-> r.raised,
                   value |-> r.value]
    /\ UNCHANGED <<pc, df, args, ret, did_model, did_data, locals>>
    /\ UNCHANGED other_models

NextTrends == ValidateParallelTrends

SpecTrends == InitTrends /\ [][NextTrends]_vars

\* the per-period means of a group in its own periods before
\* pre_treatment_periods
OwnPreMeans(frame) ==
    LET own == SelectSeq(PeriodMeans(frame, args.outcome_col),
                         LAMBDA m : m.time_period < args.pre_treatment_periods)
    IN  [i \in 1..Len(own) |-> own[i].mean]

NoMissingMean(series) == \A i \in 1..Len(series) : series[i][2] # 0

\* C24: when each group has at least two pre-periods of its own, none of
\* them without an observation, the call returns a report whose slopes are
\* the least-squares slopes of each group's own pre-period means, and whose
\* correlation and p-value are null when the groups have different numbers
\* of pre-periods
C24_OwnPrePeriodsPerGroup ==
    (/\ call.op = "validate_parallel_trends"
     /\ Len(OwnPreMeans(args.treatment_df)) >= 2
     /\ Len(OwnPreMeans(args.control_df)) >= 2
     /\ NoMissingMean(OwnPreMeans(args.treatment_df))
     /\ NoMissingMean(OwnPreMeans(args.control_df)))
    => /\ call.raised = ""
       /\ call.value.treatment_slope = PolyfitSlope(OwnPreMeans(args.treatment_df))
       /\ call.value.control_slope = PolyfitSlope(OwnPreMeans(args.control_df))
       /\ Len(OwnPreMeans(args.treatment_df)) # Len(OwnPreMeans(args.control_df))
          => /\ call.value.correlation = NoStat
             /\ call.value.p_value = NoStat

\* C25: in every returned report with two numeric slopes, slope_difference
\* is the absolute difference of the two slopes and parallel_trends_valid is
\* true exactly when ten times slope_difference is below the absolute
\* treatment slope; so a zero treatment slope is never valid, and a rising
\* treatment trend beside a falling control trend is never valid
C25_ValidityRule ==
    (/\ call.op = "validate_parallel_trends"
     /\ call.raised = ""
     /\ call.value.treatment_slope # NanStat
     /\ call.value.control_slope # NanStat)
    => /\ call.value.slope_difference.num >= 0
       /\ call.value.slope_difference.den > 0
       /\ call.value.slope_difference.num * call.value.treatment_slope.den
             * call.value.control_slope.den
          = call.value.slope_difference.den
             * Abs(call.value.treatment_slope.num * call.value.control_slope.den
                     - call.value.control_slope.num * call.value.treatment_slope.den)
       /\ call.value.parallel_trends_valid
          <=> (10 * call.value.slope_difference.num * call.value.treatment_slope.den
                 < Abs(call.value.treatment_slope.num)
                     * call.value.slope_difference.den)
       /\ call.value.treatment_slope.num = 0 => ~call.value.parallel_trends_valid
       /\ (call.value.treatment_slope.num > 0 /\ call.value.control_slope.num < 0)
          => ~call.value.parallel_trends_valid

\* two flat pre-trends: the slopes agree, the treatment slope is zero and
\* the report says not valid
C25_Witness ==
    /\ call.op = "validate_parallel_trends"
    /\ call.raised = ""
    /\ call.value.treatment_slope = Ratio(0, 1)
    /\ call.value.control_slope = Ratio(0, 1)
    /\ ~call.value.parallel_trends_valid

\* C27: a churned record names a row whose player count is below
\* threshold_pct of a rolling average that ends at that row or at an earlier
\* one; an entity whose player count never decreases is not churned
C27_ChurnBelowHistoricalAverage ==
    pc = "done" =>
        \A n \in 1..Len(ret.rows) :
            /\ ret.rows[n].churned =>
                  \E i \in 1..Len(SeriesOf(ret.rows[n].game_id)) :
                     /\ SeriesOf(ret.rows[n].game_id)[i].date = ret.rows[n].churn_date
                     /\ \E j \in 1..i :
                           BelowThreshold(
                               SeriesOf(ret.rows[n].game_id)[i].avg_players,
                               RollingMean(SeriesOf(ret.rows[n].game_id), j,
                                           args.lookback_months),
                               args.player_threshold_pct)
            /\ ( /\ args.player_threshold_pct <= 100
                 /\ \A i, j \in 1..Len(SeriesOf(ret.rows[n].game_id)) :
                       i <= j => SeriesOf(ret.rows[n].game_id)[i].avg_players
                                    <= SeriesOf(ret.rows[n].game_id)[j].avg_players )
               => ~ret.rows[n].churned

\* the durations of the model's churned records
ChurnedDurations ==
    LET churned_data == SelectSeq(survival_model.data.rows,
                                  LAMBDA r : r[survival_model.event_col] = 1)
    IN  [i \in 1..Len(churned_data) |->
            churned_data[i][survival_model.duration_col]]

\* C28: calculate_retention_metrics reports the median duration of the
\* churned records, a value also when that median is 0, whenever a record
\* is churned, and null only when none is
C28_MedianOverChurnedRecords ==
    call.op = "calculate_retention_metrics" =>
        IF Len(ChurnedDurations) > 0
        THEN /\ call.value.median_time_to_churn_months # NoStat
             /\ call.value.median_time_to_churn_months = DurationMedian(ChurnedDurations)
        ELSE call.value.median_time_to_churn_months = NoStat

\* C29: calculate_retention_metrics reports an entry for each of the
\* horizons 3, 6, 12 and 24; all are null while the model holds no overall
\* Kaplan-Meier curve, and otherwise each is null or the value of the
\* model's overall curve at the horizon
C29_RetentionEntryPerHorizon ==
    call.op = "calculate_retention_metrics" =>
        /\ DOMAIN call.value.retention_at_time = RetentionHorizons
        /\ \A months \in DOMAIN call.value.retention_at_time :
              IF survival_model.kmf = NoFit
              THEN call.value.retention_at_time[months] = Null
              ELSE \/ call.value.retention_at_time[months] = Null
                   \/ call.value.retention_at_time[months]
                      = [kind |-> "probability",
                         p |-> SurvivalAt(survival_model.data.rows,
                                          survival_model.duration_col,
                                          survival_model.event_col, months)]

(***************************************************************************)
(* SpecIngestion: the job registry of api/ingestion.py under concurrent    *)
(* trigger requests, background job runs and status queries.  All of them  *)
(* are coroutines of one event loop: a step runs from one await to the     *)
(* next.  locals.active_jobs is the registry in insertion order, a job's   *)
(* id its position in it (the code draws a uuid4); pc[job_id] is where the *)
(* job's background task stands; locals.now counts the clock readings;     *)
(* locals.status_requests counts the overall-status requests that wait for *)
(* the database                                                            *)
(***************************************************************************)
MaxJobs == 3

MaxStatusRequests == 1

RecentJobsLimit == 10

\* the appids of a trigger request; <<>> stands for None as well, both falsy
TriggerAppIds == {<<>>, <<10, 20>>}

\* trigger_ingestion, lines 94-101: the entry of a new job
NewJob(job_id, now) ==
    [job_id |-> job_id, status |-> "pending", started_at |-> now,
     completed_at |-> None, stats |-> NoStat, error_message |-> NoStat]

\* run_ingestion_job, line 40
MarkRunning(job) == [job EXCEPT !.status = "running"]

\* run_ingestion_job, lines 48-57
MarkCompleted(job, now, appids) ==
    [job EXCEPT !.status = "completed",
                !.completed_at = now,
                !.stats = [games_fetched |-> IF appids # <<>> THEN Len(appids)
                                             ELSE 100,
                           games_created |-> 5, games_updated |-> 95,
                           facts_created |-> 500, tags_created |-> 20,
                           genres_created |-> 3]]

\* Mutant of C30: the failure handler leaves completed_at unset
MarkFailed_NoTimestamp(job, now) ==
    [job EXCEPT !.status = "failed", !.error_message = [stat |-> "str(e)"]]

\* run_ingestion_job, lines 59-62
MarkFailed(job, now) ==
    [job EXCEPT !.status = "failed", !.error_message = [stat |-> "str(e)"],
                !.completed_at = now]

\* lines 180-188: the job with its duration
JobResponse(job) ==
    [job_id |-> job.job_id, status |-> job.status, started_at |-> job.started_at,
     completed_at |-> job.completed_at, stats |-> job.stats,
     error_message |-> job.error_message,
     duration_seconds |-> IF job.completed_at # None
                          THEN job.completed_at - job.started_at ELSE None]

\* lines 178-188: list(active_jobs.items())[-10:]
RecentJobs(active_jobs) ==
    [i \in 1..Min2(Len(active_jobs), RecentJobsLimit) |->
        JobResponse(active_jobs[Len(active_jobs)
                                  - Min2(Len(active_jobs), RecentJobsLimit) + i])]

\* lines 191-194
IsRunning(active_jobs) ==
    \E i \in 1..Len(active_jobs) : active_jobs[i].status = "running"

\* lines 197-201: completed_at of the latest completed job
LastFullEtl(active_jobs) ==
    IF \E i \in 1..Len(active_jobs) : active_jobs[i].status = "completed"
    THEN active_jobs[CHOOSE i \in 1..Len(active_jobs) :
                        /\ active_jobs[i].status = "completed"
                        /\ \A k \in 1..Len(active_jobs) :
                              active_jobs[k].status = "completed" => k <= i
                    ].completed_at
    ELSE None

InitIngestion ==
    /\ pc = <<>>
    /\ locals = [active_jobs |-> <<>>, now |-> 0, status_requests |-> 0]
    /\ args = <<>>
    /\ ret = [op |-> "none"]
    /\ call = [op |-> "none"]
    /\ df = DataFrame({}, <<>>)
    /\ did_model = [constructed |-> FALSE]
    /\ did_data = DataFrame({}, <<>>)
    /\ NoOtherModels

IngestionUnchanged ==
    /\ UNCHANGED <<df, did_model, did_data, call>>
    /\ UNCHANGED other_models

\* trigger_ingestion, lines 71-112: registers the job, schedules its run and
\* answers with the new entry; args[job_id] are the arguments of the run
TriggerIngestion ==
    /\ Len(locals.active_jobs) < MaxJobs
    /\ \E appids \in TriggerAppIds :
          /\ locals' = [locals EXCEPT
                          !.active_jobs =
                             Append(@, NewJob(Len(locals.active_jobs) + 1,
                                              locals.now)),
                          !.now = @ + 1]
          /\ args' = Append(args, [appids |-> appids])
          /\ pc' = Append(pc, "scheduled")
          /\ ret' = [op |-> "trigger_ingestion",
                     job |-> NewJob(Len(locals.active_jobs) + 1, locals.now)]
    /\ IngestionUnchanged

\* run_ingestion_job, lines 39-45: up to the await
RunJobStart ==
    /\ \E job_id \in DOMAIN pc :
          /\ pc[job_id] = "scheduled"
          /\ locals' = [locals EXCEPT !.active_jobs[job_id] = MarkRunning(@)]
          /\ pc' = [pc EXCEPT ![job_id] = "awaiting"]
    /\ UNCHANGED <<args, ret>>
    /\ IngestionUnchanged

\* run_ingestion_job, lines 47-57: the awaited work returned
RunJobComplete ==
    /\ \E job_id \in DOMAIN pc :
          /\ pc[job_id] = "awaiting"
          /\ locals' = [locals EXCEPT
                          !.active_jobs[job_id] =
                             MarkCompleted(@, locals.now, args[job_id].appids),
                          !.now = @ + 1]
          /\ pc' = [pc EXCEPT ![job_id] = "returned"]
    /\ UNCHANGED <<args, ret>>
    /\ IngestionUnchanged

\* run_ingestion_job, lines 59-62: the awaited work raised
RunJobFail ==
    /\ \E job_id \in DOMAIN pc :
          /\ pc[job_id] = "awaiting"
          /\ locals' = [locals EXCEPT
                          !.active_jobs[job_id] = MarkFailed(@, locals.now),
                          !.now = @ + 1]
          /\ pc' = [pc EXCEPT ![job_id] = "returned"]
    /\ UNCHANGED <<args, ret>>
    /\ IngestionUnchanged

\* get_ingestion_status, lines 155-174: up to the last database await
GetIngestionStatusStart ==
    /\ locals.status_requests < MaxStatusRequests
    /\ locals' = [locals EXCEPT !.status_requests = @ + 1]
    /\ UNCHANGED <<pc, args, ret>>
    /\ IngestionUnchanged

\* get_ingestion_status, lines 176-210: from the last database await on
GetIngestionStatusRespond ==
    /\ locals.status_requests > 0
    /\ locals' = [locals EXCEPT !.status_requests = @ - 1]
    /\ ret' = [op |-> "get_ingestion_status",
               last_full_etl |-> LastFullEtl(locals.active_jobs),
               recent_jobs |-> RecentJobs(locals.active_jobs),
               is_running |-> IsRunning(locals.active_jobs)]
    /\ UNCHANGED <<pc, args>>
    /\ IngestionUnchanged

NextIngestion ==
    \/ TriggerIngestion
    \/ RunJobStart
    \/ RunJobComplete
    \/ RunJobFail
    \/ GetIngestionStatusStart
    \/ GetIngestionStatusRespond

SpecIngestion == InitIngestion /\ [][NextIngestion]_vars

\* the status changes a registry entry may make in one step
StatusMoves ==
    {<<"pending", "running">>, <<"running", "completed">>,
     <<"running", "failed">>}

\* C30: in every interleaving of trigger requests, job runs and status
\* queries, completed_at is set exactly on the completed and failed jobs; a
\* new entry starts pending and an entry's status only moves from pending
\* to running and from running to completed or failed; a step of a job run
\* changes no entry but that job's own; and every overall-status response
\* says is_running exactly when some registered job is running
C30_JobRegistryLifecycle ==
    /\ [](\A i \in 1..Len(locals.active_jobs) :
             (locals.active_jobs[i].completed_at # None)
                <=> (locals.active_jobs[i].status \in {"completed", "failed"}))
    /\ [][/\ \A i \in 1..Len(locals'.active_jobs) :
                IF i \in 1..Len(locals.active_jobs)
                THEN \/ locals'.active_jobs[i].status = locals.active_jobs[i].status
                     \/ <<locals.active_jobs[i].status,
                          locals'.active_jobs[i].status>> \in StatusMoves
                ELSE locals'.active_jobs[i].status = "pending"
          /\ Len(locals'.active_jobs) >= Len(locals.active_jobs)
          /\ \A job_id \in DOMAIN pc :
                pc'[job_id] # pc[job_id] =>
                   \A i \in 1..Len(locals.active_jobs) :
                      i # job_id => locals'.active_jobs[i] = locals.active_jobs[i]
          /\ locals'.status_requests < locals.status_requests =>
                /\ ret'.op = "get_ingestion_status"
                /\ ret'.is_running
                      <=> \E i \in 1..Len(locals'.active_jobs) :
                             locals'.active_jobs[i].status = "running"]_vars

\* an overall-status response that says running while one job has failed,
\* one has completed and one is running
C30_Witness ==
    /\ ret.op = "get_ingestion_status"
    /\ ret.is_running
    /\ \E i, j, k \in 1..Len(locals.active_jobs) :
          /\ locals.active_jobs[i].status = "failed"
          /\ locals.active_jobs[j].status = "completed"
          /\ locals.active_jobs[k].status = "running"
=============================================================================
